---------------------------- MODULE Spec2Model ----------------------------
(***************************************************************************)
(* A model of HamiltonianPlayer (src/demo/player/HamiltonianPlayer.ts,     *)
(* the class that starts at line 1628): the song selector, the progression *)
(* generator and the look-ahead playback scheduler.                        *)
(*                                                                         *)
(* Time is counted in TimeScale-ths of a second so that beats*60/tempo is   *)
(* an integer for each of the three tempos.  Artists are sequences of       *)
(* characters, so that toLowerCase() and includes() are computed.          *)
(*                                                                         *)
(* The environment: one JavaScript thread, so the code between two awaits  *)
(* is one step; microtasks (resumed calls) run before timers; the song     *)
(* selections of one handler run without interleaving, since their awaits  *)
(* resolve in the same turn; fetches settle in the order they were started *)
(* and before the clock advances; a fetch may fail up to MaxFailures times.*)
(* The random source is either unconstrained ("any": every outcome the     *)
(* score variance admits) or constantly zero ("zero").  The page makes up  *)
(* to `budget` calls of play, pause, stop, the navigation and the playlist *)
(* operations; resuming from pause is not counted.  pause() is one step:   *)
(* the promise of ctx.suspend() settles before the page calls again.       *)
(*                                                                         *)
(* Spec is the player on LibSmall with play, pause, stop and playlists;    *)
(* SpecNavigate is the player on LibSmall with play, skipForward,          *)
(* skipBack, setKey and setTempo; SpecSelector exercises the selector,     *)
(* play() and generateCompleteMix() on the libraries of SelectorCases;     *)
(* SpecModes adds the two mode toggles to play; SpecListeners              *)
(* has the page subscribe and unsubscribe listeners, one of which throws,  *)
(* before it plays; SpecLibrary has the page replace the library with      *)
(* updateSongs while it plays, and SpecFresh does so with a library of     *)
(* other songs; SpecPlaylistUrl applies                                    *)
(* encodePlaylistToURL and decodePlaylistFromURL to urls and playlists,    *)
(* the url being a string whose characters are split and parsed;           *)
(* SpecProgression starts from every key and tempo on two libraries and    *)
(* has the page call play, setKey and setTempo; SpecLong follows one       *)
(* play() for MaxLongBeats beats; SpecSkips has the page call play,        *)
(* skipForward and setKey; SpecPlaylist plays a decoded playlist to its    *)
(* end on a library whose generated mix has two units; SpecConstructor     *)
(* runs the loops of generateProgressionFromPoint inside the constructor   *)
(* one step at a time, on libraries with and without a song at every       *)
(* tempo.  The clock is followed up to `horizon`.                          *)
(*                                                                         *)
(* Events are recorded in `trace` with the listeners they were delivered   *)
(* to; a listener named "thrower" throws whenever it is called.            *)
(***************************************************************************)
EXTENDS Integers, Sequences, FiniteSets, TLC

\* ------------------------------------------------------------------------
\* Program constants
\* ------------------------------------------------------------------------

ALL_TEMPOS == <<84, 94, 102>>

KEYS_TO_USE == <<1, 2, 3, 4, 5, 6, 7, 8, 9, 10>>

BEAT_COUNTS == [lead |-> 16, body |-> 64]

\* 7 * 47 * 17: the smallest scale for which 60 * beats / tempo is whole
TimeScale == 10 * 7 * 47 * 17

MAX_SCHEDULED_PAIRS == 1

RESET_THRESHOLD == 20

TOP_CANDIDATES == 20

INVALID_SCORE == 0 - 1000

RANDOM_VARIANCE == 80

HARMONIC_APPROACHES == 6

MAX_RECENT_SONGS == 50

MAX_RECENT_ARTISTS == 30

RECENT_ARTISTS_AVOIDED == 10

BASE_PAIR_COUNT == 10

PROGRESSION_CYCLES == 10

\* ------------------------------------------------------------------------
\* Small helpers
\* ------------------------------------------------------------------------

Abs(x) == IF x < 0 THEN 0 - x ELSE x

Min2(a, b) == IF a < b THEN a ELSE b

Max2(a, b) == IF a > b THEN a ELSE b

SetMin(S) == CHOOSE x \in S : \A y \in S : x <= y

SetMax(S) == CHOOSE x \in S : \A y \in S : x >= y

Range(f) == {f[i] : i \in DOMAIN f}

\* Array.prototype.slice(0, n)
Take(s, n) == SubSeq(s, 1, Min2(n, Len(s)))

\* index of the first element equal to x (1-based), 0 when absent
IndexOf(s, x) == IF \E i \in 1..Len(s) : s[i] = x
                 THEN SetMin({i \in 1..Len(s) : s[i] = x})
                 ELSE 0

\* ------------------------------------------------------------------------
\* Songs and libraries
\* ------------------------------------------------------------------------

Song(id, artist, key, bpm) == [id |-> id, artist |-> artist, key |-> key, bpm |-> bpm]

\* the value of candidates[0] on an empty array
Undefined == [id |-> 0, artist |-> <<>>, key |-> 0, bpm |-> 0]

\* partnerSong = null
NoPartner == Undefined

\* String.prototype.toLowerCase, on the letters the libraries use
LowerChar(c) == CASE c = "A" -> "a"
                  [] c = "B" -> "b"
                  [] c = "C" -> "c"
                  [] c = "D" -> "d"
                  [] OTHER -> c

toLowerCase(str) == [i \in 1..Len(str) |-> LowerChar(str[i])]

\* String.prototype.includes
includes(hay, needle) ==
    \E i \in 0..(Len(hay) - Len(needle)) :
        \A j \in 1..Len(needle) : hay[i + j] = needle[j]

artistsMatch(artist1, artist2) ==
    LET a1 == toLowerCase(artist1)
        a2 == toLowerCase(artist2)
    IN  includes(a1, a2) \/ includes(a2, a1)

getPairId(song1, song2) ==
    <<Min2(song1.id, song2.id), Max2(song1.id, song2.id)>>

\* ------------------------------------------------------------------------
\* Libraries the player is constructed with.  Every library has at least one
\* song at each tempo: the constructor divides by the smallest per-tempo
\* song count.
\* ------------------------------------------------------------------------

\* four artists at 84 BPM: every selection of a unit has a legal candidate
LibSmall == <<Song(1, <<"a">>, 1, 84), Song(2, <<"b">>, 2, 84),
              Song(3, <<"c">>, 3, 84), Song(4, <<"d">>, 4, 84),
              Song(5, <<"e">>, 5, 94), Song(6, <<"f">>, 6, 94),
              Song(7, <<"g">>, 7, 94), Song(8, <<"h">>, 8, 94),
              Song(9, <<"i">>, 9, 102)>>

\* two songs at 84 BPM: the second pair can only repeat the first
LibTiny == <<Song(1, <<"a">>, 1, 84), Song(2, <<"b">>, 2, 84),
             Song(3, <<"c">>, 3, 94), Song(4, <<"d">>, 4, 102)>>

\* "A" and "a ft b": artists that match by case folding and containment
LibFeat == <<Song(1, <<"A">>, 1, 84), Song(2, <<"a", " ", "f", "t", " ", "b">>, 2, 84),
             Song(3, <<"c">>, 3, 84), Song(4, <<"B">>, 8, 84),
             Song(5, <<"e">>, 5, 94), Song(6, <<"f">>, 6, 102)>>

\* two songs by one artist are all there is at 84 BPM
LibSolo == <<Song(1, <<"a">>, 1, 84), Song(2, <<"a">>, 2, 84),
             Song(3, <<"b">>, 3, 94), Song(4, <<"c">>, 4, 102)>>

\* 23 songs, five of them at 84 BPM: more than RESET_THRESHOLD songs
LibBig == [i \in 1..23 |->
             Song(i, <<ToString(i)>>, ((i - 1) % 10) + 1,
                  IF i <= 5 THEN 84 ELSE IF i <= 13 THEN 94 ELSE 102)]

\* 23 songs, three of them at 84 BPM: the pool at 84 BPM runs down to one
\* song before anything resets the played set
LibLast == [i \in 1..23 |->
              Song(i, <<ToString(i)>>, ((i - 1) % 10) + 1,
                   IF i <= 3 THEN 84 ELSE IF i <= 13 THEN 94 ELSE 102)]

\* the names of PlayerEvents
PlayerEvents == {"stateChange", "pairStart", "introStart", "mainStart", "pairEnd", "error"}

VARIABLES
    songs,            \* this.songs
    tempoPairCounts,  \* this.tempoPairCounts
    progression,      \* this.progression, kept as the (key, tempo) it was generated from
    progressIndex,    \* this.progressIndex
    hamiltonianPath,  \* this.hamiltonianPath
    pathIndexesByTempo, \* this.pathIndexesByTempo
    playedSongIds,    \* this.playedSongIds
    playedPairs,      \* this.playedPairs
    recentSongs,      \* this.recentSongs (song ids, most recent first)
    recentArtists,    \* this.recentArtists (most recent first)
    state,            \* this.state, the snapshot
    pairs,            \* the TrackPair objects created so far; a pair is named by its index
    playHistory,      \* this.playHistory
    precomputedPlaylist, \* this.precomputedPlaylist (<<>> for null)
    precomputedIndex, \* this.precomputedIndex
    preloadedBuffers, \* this.preloadedBuffers: the cached urls in insertion order
    pendingLoads,     \* this.pendingLoads: the loads in flight, oldest first
    scheduledPairsCount, \* this.scheduledPairsCount
    currentSources,   \* this.currentSources
    currentHiddenTrack, \* this.currentHiddenTrack
    mannieFreshMode,  \* this.mannieFreshMode
    eightZeroEightMode, \* this.eightZeroEightMode
    timers,           \* the setTimeout callbacks not yet run, in order of registration
    calls,            \* the async calls suspended at an await
    now,              \* wall-clock time
    ctxLag,           \* now minus AudioContext.currentTime
    ctxSuspended,     \* AudioContext.state = 'suspended'
    units,            \* history: the units whose sources were handed to the engine
    produced,         \* history: ids of the pairs produced since the last reset
    trace,            \* history: what the selections of the last step did
    lastReturn,       \* history: what the last direct getNextSongSmart call returned
    decoded,          \* history: the urls whose decoding has completed
    envPlaylist,      \* the list the page holds: the last one generateCompleteMix returned
    userOps,          \* the calls the page has made, in order
    failures,         \* the number of fetches that have failed
    randomSource,     \* how the random sources answer: "any" value, or always "zero"
    budget,           \* the number of calls the page will make
    horizon,          \* the time up to which the clock is followed
    listeners         \* this.listeners: per event, the listeners in the order they were added

\* what playback and the selector leave alone: what the constructor fixes,
\* the progression and the path (only setKey, setTempo and getNextSong change
\* them), how the random sources answer, and the listeners (only on() and
\* the functions it returns change them)
libVars == <<songs, tempoPairCounts, progression, randomSource, budget, horizon,
             hamiltonianPath, pathIndexesByTempo, listeners>>

selVars == <<libVars, progressIndex, playedSongIds, playedPairs, recentSongs, recentArtists>>

\* selVars without the progression, the cursor, the path and the played set
fixedVars == <<songs, tempoPairCounts, randomSource, budget, horizon,
               playedPairs, recentSongs, recentArtists, listeners>>

playerVars == <<state, pairs, playHistory, precomputedPlaylist, precomputedIndex,
                preloadedBuffers, pendingLoads, scheduledPairsCount, currentSources,
                currentHiddenTrack, mannieFreshMode, eightZeroEightMode, timers, calls, now, ctxLag,
                ctxSuspended>>

playerVarsButPairs == <<state, playHistory, precomputedPlaylist, precomputedIndex,
                        preloadedBuffers, pendingLoads, scheduledPairsCount, currentSources,
                        currentHiddenTrack, mannieFreshMode, eightZeroEightMode, timers, calls, now, ctxLag,
                        ctxSuspended>>

historyVars == <<units, produced, trace, lastReturn, decoded, envPlaylist, userOps, failures>>

vars == <<selVars, playerVars, historyVars>>

SongById(id) == IF \E i \in 1..Len(songs) : songs[i].id = id
                THEN songs[SetMin({i \in 1..Len(songs) : songs[i].id = id})]
                ELSE Undefined

\* ------------------------------------------------------------------------
\* constructor: weighted pair counts; generateProgressionFromPoint
\* ------------------------------------------------------------------------

songCountAtTempo(lib, tempo) == Cardinality({i \in 1..Len(lib) : lib[i].bpm = tempo})

\* Math.round(x / y) for x >= 0, y > 0
RoundDiv(x, y) == (2 * x + y) \div (2 * y)

\* Math.round(basePairCount * (songCount / 0)) is Infinity: a count that no
\* loop index reaches
Infinity == 0 - 1

computeTempoPairCounts(lib) ==
    LET minSongCount == SetMin({songCountAtTempo(lib, ALL_TEMPOS[i]) : i \in 1..Len(ALL_TEMPOS)})
    IN  [tempo \in Range(ALL_TEMPOS) |->
            LET count == songCountAtTempo(lib, tempo)
                songCount == IF count = 0 THEN 1 ELSE count
            IN  IF minSongCount = 0 THEN Infinity
                ELSE RoundDiv(BASE_PAIR_COUNT * songCount, minSongCount)]

\* this.tempoPairCounts.get(tempo) || 10
pairCountOf(tempo) == IF tempoPairCounts[tempo] = 0 THEN 10 ELSE tempoPairCounts[tempo]

tempoAtOffsetBackwards(startTempo, tempoOffset) ==
    ALL_TEMPOS[((IndexOf(ALL_TEMPOS, startTempo) - 1 + 2 * tempoOffset) % Len(ALL_TEMPOS)) + 1]

\* the tempo of the block at tempoOffset
tempoAtOffset(startTempo, tempoOffset) ==
    ALL_TEMPOS[((IndexOf(ALL_TEMPOS, startTempo) - 1 + tempoOffset) % Len(ALL_TEMPOS)) + 1]

\* the entries pushed before the block at tempoOffset of one cycle
RECURSIVE entriesBefore(_, _)
entriesBefore(startTempo, tempoOffset) ==
    IF tempoOffset = 0 THEN 0
    ELSE entriesBefore(startTempo, tempoOffset - 1)
           + pairCountOf(tempoAtOffset(startTempo, tempoOffset - 1))

\* this.progression.length
progressionLength(startTempo) == PROGRESSION_CYCLES * entriesBefore(startTempo, Len(ALL_TEMPOS))

\* the entries the innermost loop pushes for the block at tempoOffset
blockAt(startKey, startTempo, tempoOffset) ==
    LET startKeyIndex == IndexOf(KEYS_TO_USE, startKey) - 1
        tempo == tempoAtOffset(startTempo, tempoOffset)
    IN  [n \in 1..pairCountOf(tempo) |->
            [key |-> KEYS_TO_USE[((startKeyIndex + (n - 1)) % Len(KEYS_TO_USE)) + 1],
             tempo |-> tempo]]

\* the entries one cycle pushes from the block at tempoOffset on
RECURSIVE cycleFrom(_, _, _)
cycleFrom(startKey, startTempo, tempoOffset) ==
    IF tempoOffset >= Len(ALL_TEMPOS) THEN <<>>
    ELSE blockAt(startKey, startTempo, tempoOffset)
           \o cycleFrom(startKey, startTempo, tempoOffset + 1)

RECURSIVE repeated(_, _)
repeated(list, times) == IF times = 0 THEN <<>> ELSE list \o repeated(list, times - 1)

\* the array the three nested loops push
generateProgressionFromPoint(startKey, startTempo) ==
    repeated(cycleFrom(startKey, startTempo, 0), PROGRESSION_CYCLES)

\* this.progression
Progression == generateProgressionFromPoint(progression.key, progression.tempo)

ProgressionLength == progressionLength(progression.tempo)

\* this.progression[i] (0-based, as in the code)
ProgressionAt(i) == Progression[i + 1]

\* ------------------------------------------------------------------------
\* Selection history: the four fields the selector reads and writes, passed
\* as one record h so that the selections of one handler can be composed.
\* ------------------------------------------------------------------------

History == [played |-> playedSongIds, pairs |-> playedPairs,
            recentSongs |-> recentSongs, recentArtists |-> recentArtists,
            produced |-> produced, trace |-> <<>>]

EmptyHistory == [played |-> {}, pairs |-> {}, recentSongs |-> <<>>, recentArtists |-> <<>>,
                 produced |-> {}, trace |-> <<>>]

\* history entries: a reset of the played sets, a call that returned
\* undefined, a pair handed out
UndefinedEntry(h, by) ==
    [type |-> "undefined", a |-> 0, b |-> 0, played |-> Cardinality(h.played),
     match |-> FALSE, repeat |-> FALSE, by |-> by]

ResetEntry(h, by) ==
    [type |-> "reset", a |-> 0, b |-> 0, played |-> Cardinality(h.played),
     match |-> FALSE, repeat |-> FALSE, by |-> by]

PairEntry(h, a, b, by) ==
    [type |-> "pair", a |-> a.id, b |-> b.id, played |-> Cardinality(h.played),
     match |-> artistsMatch(a.artist, b.artist), repeat |-> getPairId(a, b) \in h.produced,
     by |-> by]

\* a call that returned song c for the target tempo: whether c was in
\* playedSongIds when the call was made, and how the pool of unplayed,
\* non-avoided songs at the tempo stood ("empty", "refused": every song of it
\* fails the partner checks, "open" otherwise)
ReturnEntry(h, o, by) ==
    [type |-> "return", a |-> o.song.id, b |-> 0, played |-> Cardinality(h.played),
     match |-> FALSE, repeat |-> FALSE, by |-> by,
     bpm |-> o.song.bpm, target |-> o.target, wasPlayed |-> o.song.id \in h.played,
     pool |-> o.pool]

notePair(h, a, b, by) ==
    [h EXCEPT !.produced = @ \cup {getPairId(a, b)}, !.trace = Append(@, PairEntry(h, a, b, by))]

\* ------------------------------------------------------------------------
\* scoreSong.  The two Math.random() draws are parameters: harmonicApproach
\* in 0..5 and randomVariance in [0, 80).
\* ------------------------------------------------------------------------

isPairPlayed(h, song1, song2) == getPairId(song1, song2) \in h.pairs

tempoScore(song, tempo) ==
    IF song.bpm = tempo THEN 60
    ELSE LET tempoDiff == Abs(song.bpm - tempo)
         IN  IF tempoDiff <= 6 THEN 20
             ELSE IF tempoDiff <= 12 THEN 0 - 10
             ELSE IF tempoDiff <= 18 THEN 0 - 30
             ELSE 0 - 50

keyScore(song, key, harmonicApproach) ==
    LET keyDiff == Abs(song.key - key)
        circularDiff == Min2(keyDiff, 12 - keyDiff)
    IN  IF song.key = key THEN 50
        ELSE CASE harmonicApproach = 0 ->
                    IF circularDiff \in {5, 7} THEN 30
                    ELSE IF circularDiff \in {3, 4} THEN 20
                    ELSE IF circularDiff = 2 THEN 10
                    ELSE 0 - circularDiff * 3
               [] harmonicApproach = 1 ->
                    IF circularDiff \in {2, 5, 9} THEN 35
                    ELSE IF circularDiff = 7 THEN 25
                    ELSE 0 - circularDiff * 4
               [] harmonicApproach = 2 ->
                    IF circularDiff \in {2, 4, 6} THEN 30
                    ELSE IF circularDiff \in {3, 5} THEN 20
                    ELSE 0 - circularDiff * 3
               [] harmonicApproach = 3 ->
                    IF circularDiff = 6 THEN 35
                    ELSE IF circularDiff \in {3, 9} THEN 25
                    ELSE 0 - circularDiff * 4
               [] harmonicApproach = 4 ->
                    IF circularDiff \in {8, 9} THEN 30
                    ELSE IF circularDiff \in {2, 11} THEN 25
                    ELSE 0 - circularDiff * 3
               [] OTHER ->
                    IF circularDiff = 1 THEN 35
                    ELSE IF circularDiff = 2 THEN 30
                    ELSE IF circularDiff \in {5, 7} THEN 20
                    ELSE 0 - circularDiff * 3

artistPenalty(song, avoidArtists) ==
    80 * Cardinality({i \in 1..Len(avoidArtists) : artistsMatch(song.artist, avoidArtists[i])})

recencyPenalty(h, song) ==
    LET recentIndex == IndexOf(h.recentSongs, song.id) - 1
    IN  IF recentIndex = 0 - 1 THEN 0 ELSE Max2(0, 50 - recentIndex * 2)

\* the partner checks of scoreSong: a same-artist or already-played pair is invalid
partnerAllows(h, song, partnerSong) ==
    partnerSong = NoPartner
    \/ (~artistsMatch(song.artist, partnerSong.artist) /\ ~isPairPlayed(h, song, partnerSong))

scoreSong(h, song, tempo, key, partnerSong, avoidArtists, harmonicApproach, randomVariance) ==
    IF ~partnerAllows(h, song, partnerSong) THEN INVALID_SCORE
    ELSE 100 + tempoScore(song, tempo) + keyScore(song, key, harmonicApproach)
         - artistPenalty(song, avoidArtists)
         + (IF partnerSong # NoPartner THEN 30 ELSE 0)
         - recencyPenalty(h, song)
         + (IF song.id \notin h.played THEN 200 ELSE 0)
         + randomVariance

\* the least score the draws can give, and the bound the greatest stays below
scoreLo(h, song, tempo, key, partnerSong, avoidArtists) ==
    SetMin({scoreSong(h, song, tempo, key, partnerSong, avoidArtists, a, 0) :
              a \in 0..(HARMONIC_APPROACHES - 1)})

scoreHi(h, song, tempo, key, partnerSong, avoidArtists) ==
    SetMax({scoreSong(h, song, tempo, key, partnerSong, avoidArtists, a,
                      IF partnerAllows(h, song, partnerSong) THEN RANDOM_VARIANCE ELSE 0) :
              a \in 0..(HARMONIC_APPROACHES - 1)})

\* .map(score).filter(score > -1000): the candidates some draw keeps
scored(h, candidates, tempo, key, partnerSong, avoidArtists) ==
    {c \in Range(candidates) : scoreHi(h, c, tempo, key, partnerSong, avoidArtists) > INVALID_SCORE}

\* the position of a song in this.songs
libraryIndex(song) == SetMin({k \in 1..Len(songs) : songs[k] = song})

\* .sort(descending).slice(0, 20), then qrng.getChoice: a candidate can be
\* chosen unless 20 others outrank it whatever the draws.  When every draw
\* is zero the scores are fixed, the sort is stable and index 0 is chosen.
topChoices(h, valid, tempo, key, partnerSong, avoidArtists) ==
    IF randomSource = "zero"
    THEN LET score0(c) == scoreSong(h, c, tempo, key, partnerSong, avoidArtists, 0, 0)
         IN  {c \in valid : \A d \in valid \ {c} :
                 \/ score0(d) < score0(c)
                 \/ (score0(d) = score0(c) /\ libraryIndex(d) > libraryIndex(c))}
    ELSE {c \in valid :
            Cardinality({d \in valid \ {c} :
                scoreLo(h, d, tempo, key, partnerSong, avoidArtists)
                  >= scoreHi(h, c, tempo, key, partnerSong, avoidArtists)}) < TOP_CANDIDATES}

\* ------------------------------------------------------------------------
\* getNextSongSmart on history h: the set of outcomes [song, reset]; reset
\* says that the call cleared playedSongIds and playedPairs.
\* ------------------------------------------------------------------------

unplayedPool(h, avoidSongIds) ==
    SelectSeq(songs, LAMBDA s : s.id \notin h.played /\ s.id \notin avoidSongIds)

\* candidates[0]
lastResort(candidates) == IF Len(candidates) = 0 THEN Undefined ELSE candidates[1]

\* a pool that never prefers the unplayed songs
candidatePoolAll(unplayedAtTempo, allSongsAtTempo) == allSongsAtTempo

\* let candidates = unplayedAtTempo.length > 0 ? unplayedAtTempo : allSongsAtTempo
candidatePool(unplayedAtTempo, allSongsAtTempo) ==
    IF Len(unplayedAtTempo) > 0 THEN unplayedAtTempo ELSE allSongsAtTempo

\* history: how the pool of unplayed, non-avoided songs at the tempo stands
poolState(h, unplayedAtTempo, partnerSong) ==
    IF Len(unplayedAtTempo) = 0 THEN "empty"
    ELSE IF \A k \in 1..Len(unplayedAtTempo) : ~partnerAllows(h, unplayedAtTempo[k], partnerSong)
    THEN "refused"
    ELSE "open"

getNextSongSmart(h, tempo, key, partnerSong, avoidArtists, avoidSongIds) ==
    LET unplayedSongs == unplayedPool(h, avoidSongIds)
        shouldResetPlayedSongs == Len(unplayedSongs) < RESET_THRESHOLD
        unplayedAtTempo == SelectSeq(unplayedSongs, LAMBDA s : s.bpm = tempo)
        allSongsAtTempo == SelectSeq(songs, LAMBDA s : s.bpm = tempo /\ s.id \notin avoidSongIds)
        candidates == candidatePool(unplayedAtTempo, allSongsAtTempo)
        expanded == candidates = unplayedAtTempo /\ Len(unplayedAtTempo) > 0
        first == scored(h, candidates, tempo, key, partnerSong, avoidArtists)
        allScored == IF expanded
                     THEN scored(h, allSongsAtTempo, tempo, key, partnerSong, avoidArtists)
                     ELSE {}
        final == IF expanded THEN allSongsAtTempo ELSE candidates
        relaxed == scored(h, final, tempo, key, partnerSong, <<>>)
        pool == poolState(h, unplayedAtTempo, partnerSong)
        Outcome(c, reset) == [song |-> c, reset |-> reset, target |-> tempo, pool |-> pool]
    IN  IF first # {}
        THEN {Outcome(c, shouldResetPlayedSongs /\ h.played # {}) :
                c \in topChoices(h, first, tempo, key, partnerSong, avoidArtists)}
        ELSE IF allScored # {}
        THEN {Outcome(c, FALSE) :
                c \in topChoices(h, allScored, tempo, key, partnerSong, avoidArtists)}
        ELSE IF relaxed = {}
        THEN {Outcome(lastResort(final), FALSE)}
        ELSE {Outcome(c, FALSE) :
                c \in topChoices(h, relaxed, tempo, key, partnerSong, <<>>)}

\* the history after a call that returned outcome o
afterSelection(h, o, by) ==
    IF o.reset
    THEN [h EXCEPT !.played = {}, !.pairs = {}, !.produced = {},
                   !.trace = @ \o <<ReturnEntry(h, o, by), ResetEntry(h, by)>>]
    ELSE IF o.song = Undefined
    THEN [h EXCEPT !.trace = Append(@, UndefinedEntry(h, by))]
    ELSE [h EXCEPT !.trace = Append(@, ReturnEntry(h, o, by))]

\* getMusicallyRelatedKey: the keys qrng.getChoice(relationships) can give
RELATIONSHIPS == <<7, 5, 0 - 7, 0 - 5, 3, 0 - 3, 6, 2, 0 - 2, 4, 0 - 4>>

getMusicallyRelatedKey(baseKey) ==
    {Max2(1, Min2(10, ((baseKey - 1 + r) % 12) + 1)) :
        r \in IF randomSource = "zero" THEN {RELATIONSHIPS[1]} ELSE Range(RELATIONSHIPS)}

\* ------------------------------------------------------------------------
\* The selections one handler makes in a row.  A step names its target, the
\* earlier picks it pairs with and avoids, and what the handler records once
\* the song is chosen.  An undefined song makes the handler's next property
\* access throw a TypeError, which ends the row (threw).
\* ------------------------------------------------------------------------

Step(tempo, keys, partner, recent, artists, fixedArtists, ids, commit) ==
    [tempo |-> tempo, keys |-> keys, partner |-> partner, recent |-> recent,
     artists |-> artists, fixedArtists |-> fixedArtists, ids |-> ids, commit |-> commit]

unshift2(list, a, b, limit) == Take(<<a, b>> \o list, limit)

\* markPairPlayed, playedSongIds.add x2, recentSongs and recentArtists unshift
commitPair(h, a, b, by) ==
    [notePair(h, a, b, by) EXCEPT
        !.played = @ \cup {a.id, b.id},
        !.pairs = @ \cup {getPairId(a, b)},
        !.recentSongs = unshift2(@, a.id, b.id, MAX_RECENT_SONGS),
        !.recentArtists = unshift2(@, a.artist, b.artist, MAX_RECENT_ARTISTS)]

\* playedSongIds.add x2 and the unshifts, for the two hidden tracks
commitHidden(h, a, b) ==
    [h EXCEPT !.played = @ \cup {a.id, b.id},
              !.recentSongs = unshift2(@, a.id, b.id, MAX_RECENT_SONGS),
              !.recentArtists = unshift2(@, a.artist, b.artist, MAX_RECENT_ARTISTS)]

stepAvoidArtists(h, picks, st) ==
    (IF st.recent THEN Take(h.recentArtists, RECENT_ARTISTS_AVOIDED) ELSE <<>>)
      \o st.fixedArtists
      \o [i \in 1..Len(st.artists) |-> picks[st.artists[i]].artist]

stepOutcomes(h, picks, st) ==
    UNION {getNextSongSmart(h, st.tempo, k,
                            IF st.partner = 0 THEN NoPartner ELSE picks[st.partner],
                            stepAvoidArtists(h, picks, st),
                            {picks[st.ids[i]].id : i \in 1..Len(st.ids)}) : k \in st.keys}

RECURSIVE runSelections(_, _, _, _)
runSelections(h, picks, steps, by) ==
    IF steps = <<>> THEN {[h |-> h, picks |-> picks, threw |-> FALSE]}
    ELSE LET st == Head(steps)
             n == Len(picks)
         IN  UNION {
               LET h1 == afterSelection(h, o, by)
                   all == Append(picks, o.song)
               IN  IF o.song = Undefined
                   THEN {[h |-> IF st.commit = "hidden"
                                THEN [h1 EXCEPT !.played = @ \cup {picks[n].id}]
                                ELSE h1,
                          picks |-> all, threw |-> TRUE]}
                   ELSE runSelections(
                          CASE st.commit = "pair" -> commitPair(h1, picks[n], o.song, by)
                            [] st.commit = "hidden" -> commitHidden(h1, picks[n], o.song)
                            [] OTHER -> h1,
                          all, Tail(steps), by)
               : o \in stepOutcomes(h, picks, st)}

\* the two hidden songs of the pair made of picks a and b
hiddenSteps(entry, a, b) ==
    <<Step(entry.tempo, getMusicallyRelatedKey(entry.key), 0, FALSE,
           <<a, b>>, <<>>, <<a, b>>, "none"),
      Step(entry.tempo, getMusicallyRelatedKey(entry.key), 0, FALSE,
           <<a, b, b + 1>>, <<>>, <<a, b, b + 1>>, "hidden")>>

\* play(), lines 3021-3077: pair 1, pair 2, hidden tracks of pair 1, of pair 2
playSteps(entry1, entry2) ==
    <<Step(entry1.tempo, {entry1.key}, 0, TRUE, <<>>, <<>>, <<>>, "none"),
      Step(entry1.tempo, {entry1.key}, 1, TRUE, <<1>>, <<>>, <<>>, "pair"),
      Step(entry2.tempo, {entry2.key}, 0, TRUE, <<1, 2>>, <<>>, <<>>, "none"),
      Step(entry2.tempo, {entry2.key}, 3, TRUE, <<3, 1, 2>>, <<>>, <<>>, "pair"),
      Step(entry1.tempo, getMusicallyRelatedKey(entry1.key), 0, FALSE,
           <<1, 2>>, <<>>, <<1, 2>>, "none"),
      Step(entry1.tempo, getMusicallyRelatedKey(entry1.key), 0, FALSE,
           <<1, 2, 5>>, <<>>, <<1, 2, 5>>, "hidden"),
      Step(entry2.tempo, getMusicallyRelatedKey(entry2.key), 0, FALSE,
           <<3, 4>>, <<>>, <<3, 4>>, "none"),
      Step(entry2.tempo, getMusicallyRelatedKey(entry2.key), 0, FALSE,
           <<3, 4, 7>>, <<>>, <<3, 4, 7>>, "hidden")>>

\* scheduleNextPair, lines 3389-3421: the new next pair, avoiding the artists
\* of the pair being scheduled
nextPairSteps(nextEntry, lead) ==
    <<Step(nextEntry.tempo, {nextEntry.key}, 0, TRUE, <<>>, lead, <<>>, "none"),
      Step(nextEntry.tempo, {nextEntry.key}, 1, TRUE, <<1>>, lead, <<>>, "pair")>>
      \o hiddenSteps(nextEntry, 1, 2)

\* ------------------------------------------------------------------------
\* Tracks and pairs.  A url is the song id with the part it names.  The key
\* of a track is display data only and is left out.
\* ------------------------------------------------------------------------

calculateTrackDurationWrongBeats(tempo, type) == (BEAT_COUNTS.body * 60 * TimeScale) \div tempo

calculateTrackDuration(tempo, type) == (BEAT_COUNTS[type] * 60 * TimeScale) \div tempo

NoTrack == [song |-> 0, tempo |-> 0, introDuration |-> 0, mainDuration |-> 0]

createTrack(song, tempo) ==
    [song |-> song.id, tempo |-> tempo,
     introDuration |-> calculateTrackDuration(tempo, "lead"),
     mainDuration |-> calculateTrackDuration(tempo, "body")]

createTrackPair(song1, song2, key, tempo) ==
    [track1 |-> createTrack(song1, tempo), track2 |-> createTrack(song2, tempo),
     track3 |-> NoTrack, track4 |-> NoTrack, key |-> key, tempo |-> tempo]

withHiddenTracks(pair, song3, song4) ==
    [pair EXCEPT !.track3 = createTrack(song3, pair.tempo),
                 !.track4 = createTrack(song4, pair.tempo)]

introUrl(track) == <<track.song, "lead">>

mainUrl(track) == <<track.song, "body">>

primaryUrls(pair) ==
    <<introUrl(pair.track1), mainUrl(pair.track1), introUrl(pair.track2), mainUrl(pair.track2)>>

hiddenUrls(pair) ==
    <<introUrl(pair.track3), mainUrl(pair.track3), introUrl(pair.track4), mainUrl(pair.track4)>>

\* null
Null == 0

\* ------------------------------------------------------------------------
\* loadAudioBuffer / performLoad
\* ------------------------------------------------------------------------

isCached(url) == url \in Range(preloadedBuffers)

isPending(pl, url) == \E i \in 1..Len(pl) : pl[i].url = url

RECURSIVE loadAudioBuffersAnew(_, _)
\* loadAudioBuffer without the pendingLoads test
loadAudioBuffersAnew(pl, urls) ==
    IF urls = <<>> THEN pl
    ELSE LET url == Head(urls)
         IN  loadAudioBuffersAnew(
               IF isCached(url) THEN pl
               ELSE Append(pl, [url |-> url, stage |-> "fetch", retryCount |-> 0]),
               Tail(urls))

RECURSIVE loadAudioBuffers(_, _)
\* loadAudioBuffer(url) for each url in turn: a url neither cached nor pending
\* starts a fetch
loadAudioBuffers(pl, urls) ==
    IF urls = <<>> THEN pl
    ELSE LET url == Head(urls)
         IN  loadAudioBuffers(
               IF isCached(url) \/ isPending(pl, url) THEN pl
               ELSE Append(pl, [url |-> url, stage |-> "fetch", retryCount |-> 0]),
               Tail(urls))

\* the urls whose promise is still unsettled after the calls above
unsettled(urls) == {u \in Range(urls) : ~isCached(u)}

\* ------------------------------------------------------------------------
\* timers and suspended calls
\* ------------------------------------------------------------------------

currentTime == now - ctxLag

\* setTimeout(cb, Math.max(0, (target - ctx.currentTime) * 1000))
Timer(kind, target, pair, next, t, from) ==
    [kind |-> kind, at |-> now + Max2(0, target - currentTime), pair |-> pair,
     next |-> next, t |-> t, from |-> from, url |-> <<>>]

\* from and entryCount are history: the unit whose end time the call was
\* given, and scheduledPairsCount when the call passed the cap test; so are
\* by, over and seen: the method the page or a timer called, the unit that
\* was audible and the number of units started when it was called
Call(op, pc, pair, t, need, from, entryCount) ==
    [op |-> op, pc |-> pc, pair |-> pair, next |-> 0, t |-> t, need |-> need,
     from |-> from, entryCount |-> entryCount, unit |-> 0,
     by |-> op, over |-> 0, seen |-> 0]

\* startTime === undefined
NoTime == 0 - 1

\* a call whose awaited promises have all settled runs before any timer
Runnable(c) == c.need = {}

Idle == \A i \in 1..Len(calls) : ~Runnable(calls[i])

RemoveAt(s, i) == SubSeq(s, 1, i - 1) \o SubSeq(s, i + 1, Len(s))

\* ------------------------------------------------------------------------
\* generateCompleteMix: ceil(N / 4) iterations, each building one pair from
\* the lists kept for this call (temp); a TypeError skips the iteration.
\* The outcome is the history (only resets change it) and the list built.
\* ------------------------------------------------------------------------

EmptyTemp == [played |-> {}, recentArtists |-> <<>>]

tempAdd(temp, a, b) ==
    [played |-> temp.played \cup {a.id, b.id},
     recentArtists |-> unshift2(temp.recentArtists, a.artist, b.artist, MAX_RECENT_ARTISTS)]

NoPair == [track1 |-> NoTrack, track2 |-> NoTrack, track3 |-> NoTrack, track4 |-> NoTrack,
           key |-> 0, tempo |-> 0]

mixPair(h, temp, entry) ==
    LET by == "generateCompleteMix"
        recent10(t) == Take(t.recentArtists, RECENT_ARTISTS_AVOIDED)
        relatedKey3 == ((entry.key + 4) % 10) + 1
        relatedKey4 == ((entry.key + 7) % 10) + 1
        skip(hh, tt) == {[h |-> hh, temp |-> tt, pair |-> NoPair]}
        fourth(h3, temp2, song1, song2, song3) ==
            UNION {
              LET h4 == afterSelection(h3, o4, by)
                  song4 == o4.song
              IN  IF song4 = Undefined
                  THEN skip(h4, [temp2 EXCEPT !.played = @ \cup {song3.id}])
                  ELSE {[h |-> notePair(h4, song1, song2, by),
                         temp |-> tempAdd(temp2, song3, song4),
                         pair |-> withHiddenTracks(
                                    createTrackPair(song1, song2, entry.key, entry.tempo),
                                    song3, song4)]}
              : o4 \in getNextSongSmart(h3, entry.tempo, relatedKey4, song3,
                          recent10(temp2) \o <<song3.artist, song1.artist, song2.artist>>,
                          temp2.played)}
        third(h2, temp2, song1, song2) ==
            UNION {
              LET h3 == afterSelection(h2, o3, by)
              IN  IF o3.song = Undefined THEN skip(h3, temp2)
                  ELSE fourth(h3, temp2, song1, song2, o3.song)
              : o3 \in getNextSongSmart(h2, entry.tempo, relatedKey3, NoPartner,
                          recent10(temp2) \o <<song1.artist, song2.artist>>, temp2.played)}
        second(h1, song1) ==
            UNION {
              LET h2 == afterSelection(h1, o2, by)
              IN  IF o2.song = Undefined
                  THEN skip(h2, [temp EXCEPT !.played = @ \cup {song1.id}])
                  ELSE third(h2, tempAdd(temp, song1, o2.song), song1, o2.song)
              : o2 \in getNextSongSmart(h1, entry.tempo, entry.key, song1,
                          recent10(temp) \o <<song1.artist>>, temp.played)}
    IN  UNION {
          LET h1 == afterSelection(h, o1, by)
          IN  IF o1.song = Undefined THEN skip(h1, temp) ELSE second(h1, o1.song)
          : o1 \in getNextSongSmart(h, entry.tempo, entry.key, NoPartner,
                      recent10(temp), temp.played)}

\* Math.ceil(this.songs.length / 4)
targetPairs == (Len(songs) + 3) \div 4

RECURSIVE mixFrom(_, _, _, _)
mixFrom(h, temp, completeMix, i) ==
    IF i >= targetPairs THEN {[h |-> h, mix |-> completeMix]}
    ELSE UNION {
           mixFrom(r.h, r.temp,
                   IF r.pair = NoPair THEN completeMix ELSE Append(completeMix, r.pair),
                   i + 1)
           : r \in mixPair(h, temp, ProgressionAt(i % ProgressionLength))}

generateCompleteMix(h) == mixFrom(h, EmptyTemp, <<>>, 0)

\* ------------------------------------------------------------------------
\* Bounds
\* ------------------------------------------------------------------------

\* the page makes at most this many calls
MaxUserOps == 2

\* the page makes at most this many calls when only the selections are followed
MaxSelectorOps == 1

\* at most this many fetches fail
MaxFailures == 1

\* wall-clock time stops after this many beats at 84 BPM
MaxBeats == 200

\* ------------------------------------------------------------------------
\* Initial state: new HamiltonianPlayer(lib, startKey, startTempo)
\* ------------------------------------------------------------------------

\* lastReturn before any direct call
NotCalled == [id |-> 0 - 1, artist |-> <<>>, key |-> 0, bpm |-> 0]

InitialState(startKey, startTempo) ==
    [key |-> startKey, tempo |-> startTempo, isPlaying |-> FALSE, isPaused |-> FALSE,
     currentPair |-> Null, nextPair |-> Null, progressIndex |-> 0,
     mannieFreshMode |-> TRUE, eightZeroEightMode |-> FALSE,
     activeHiddenTrack |-> 3]

\* the state the constructor leaves, with the calls that are running and
\* the clock followed for beats beats at 84 BPM
InitRunning(lib, startKey, startTempo, source, calls_, beats, running) ==
    /\ songs = lib
    /\ randomSource = source
    /\ budget = calls_
    /\ horizon = beats * ((60 * TimeScale) \div 84)
    /\ tempoPairCounts = computeTempoPairCounts(lib)
    /\ progression = [key |-> startKey, tempo |-> startTempo]
    /\ progressIndex = 0
    /\ hamiltonianPath = lib
    /\ pathIndexesByTempo = [t \in Range(ALL_TEMPOS) |-> 0]
    /\ playedSongIds = {}
    /\ playedPairs = {}
    /\ recentSongs = <<>>
    /\ recentArtists = <<>>
    /\ state = InitialState(startKey, startTempo)
    /\ pairs = <<>>
    /\ playHistory = <<>>
    /\ precomputedPlaylist = <<>>
    /\ precomputedIndex = 0
    /\ preloadedBuffers = <<>>
    /\ pendingLoads = <<>>
    /\ scheduledPairsCount = 0
    /\ currentSources = {}
    /\ currentHiddenTrack = 3
    /\ mannieFreshMode = TRUE
    /\ eightZeroEightMode = FALSE
    /\ timers = <<>>
    /\ calls = running
    /\ now = 0
    /\ ctxLag = 0
    /\ ctxSuspended = FALSE
    /\ units = <<>>
    /\ produced = {}
    /\ trace = <<>>
    /\ lastReturn = NotCalled
    /\ decoded = {}
    /\ envPlaylist = <<>>
    /\ userOps = <<>>
    /\ failures = 0
    /\ listeners = [e \in PlayerEvents |-> <<>>]

InitAt(lib, startKey, startTempo, source, calls_, beats) ==
    InitRunning(lib, startKey, startTempo, source, calls_, beats, <<>>)

InitWith(lib, startKey, startTempo, source, calls_) ==
    InitAt(lib, startKey, startTempo, source, calls_, MaxBeats)

\* the calls counted against the budget: all but the resuming play()
Spent == Len(SelectSeq(userOps, LAMBDA o : o # "resume"))

\* the last call the page made
lastOp == IF userOps = <<>> THEN "none" ELSE userOps[Len(userOps)]

\* the listener that throws when it is called, and the one that returns
Listeners == {"thrower", "keeper"}

throws(listener) == listener = "thrower"

RECURSIVE forEachUncaught(_)
\* the listeners called when the first exception ends the delivery
forEachUncaught(ls) ==
    IF ls = <<>> THEN [to |-> <<>>, raised |-> FALSE]
    ELSE IF throws(Head(ls)) THEN [to |-> <<Head(ls)>>, raised |-> TRUE]
    ELSE LET rest == forEachUncaught(Tail(ls))
         IN  [to |-> <<Head(ls)>> \o rest.to, raised |-> rest.raised]

RECURSIVE forEach(_)
\* emit: listeners.forEach(listener => { try { listener(data) } catch {} }).
\* The outcome is the listeners that were called, in order, and whether an
\* exception left emit.
forEach(ls) ==
    IF ls = <<>> THEN [to |-> <<>>, raised |-> FALSE]
    ELSE LET rest == forEach(Tail(ls))
         IN  [to |-> <<Head(ls)>> \o rest.to, raised |-> rest.raised]

\* this.emit(name, pair): an event and the listeners it was delivered to
Emitted(name, pair) ==
    [type |-> "event", name |-> name, pair |-> pair, to |-> forEach(listeners[name]).to]

\* emit raised an exception into its caller
raised(name) == forEach(listeners[name]).raised

RECURSIVE emitInTurn(_, _)
\* the emits of one callback, one after the other: an exception leaving one
\* of them ends the callback
emitInTurn(names, pair) ==
    IF names = <<>> THEN <<>>
    ELSE IF raised(Head(names)) THEN <<Emitted(Head(names), pair)>>
    ELSE <<Emitted(Head(names), pair)>> \o emitInTurn(Tail(names), pair)

\* the callback was ended by an exception from one of its emits
ended(names) == \E n \in 1..Len(names) : raised(names[n])

\* the selection state after a row of selections ended in history h
SetHistory(h) ==
    /\ playedSongIds' = h.played
    /\ playedPairs' = h.pairs
    /\ recentSongs' = h.recentSongs
    /\ recentArtists' = h.recentArtists
    /\ produced' = h.produced
    /\ trace' = h.trace

\* updateState(updates): a new snapshot
updateState(st, updates) == [f \in DOMAIN st |-> IF f \in DOMAIN updates THEN updates[f] ELSE st[f]]

\* ------------------------------------------------------------------------
\* Sources handed to the audio engine, and the history of units
\* ------------------------------------------------------------------------

startSources(pair, tracks, startTime, mainStartTime) ==
    {[pair |-> pair, track |-> k, part |-> "lead", at |-> startTime] : k \in tracks}
      \cup {[pair |-> pair, track |-> k, part |-> "body", at |-> mainStartTime] : k \in tracks}

tracksOf(pair) ==
    {1, 2} \cup (IF pair.track3 # NoTrack THEN {3} ELSE {}) \cup (IF pair.track4 # NoTrack THEN {4} ELSE {})

assetsOf(pair) ==
    Range(primaryUrls(pair))
      \cup (IF pair.track3 # NoTrack THEN {introUrl(pair.track3), mainUrl(pair.track3)} ELSE {})
      \cup (IF pair.track4 # NoTrack THEN {introUrl(pair.track4), mainUrl(pair.track4)} ELSE {})

Unit(pair, via, startTime, mainStartTime, endTime, from, entryCount, tracks) ==
    [pair |-> pair, via |-> via, startTime |-> startTime, mainStartTime |-> mainStartTime,
     endTime |-> endTime, from |-> from, entryCount |-> entryCount, tracks |-> tracks,
     ready |-> assetsOf(pairs[pair]) \subseteq decoded,
     by |-> via, over |-> 0, seen |-> 0]

\* the unit that sounds: the last one started whose time span holds the
\* audio clock and whose sources have not been halted (0 if none)
audibleUnit ==
    LET sounds == {u \in 1..Len(units) :
                     /\ units[u].startTime <= currentTime /\ currentTime < units[u].endTime
                     /\ \E src \in currentSources : src.pair = units[u].pair}
    IN  IF sounds = {} THEN 0 ELSE SetMax(sounds)

FIVE_SECONDS == 5 * TimeScale

TENTH_OF_A_SECOND == TimeScale \div 10

\* the look-ahead cap test that never defers
atCapNever(count) == FALSE

\* this.scheduledPairsCount >= this.MAX_SCHEDULED_PAIRS
atCap(count) == count >= MAX_SCHEDULED_PAIRS

\* a deferred attempt that aims five seconds early
retryStartTimeEarly(startTime) == startTime - FIVE_SECONDS

\* the start time a deferred attempt passes on: void this.scheduleNextPair(startTime)
retryStartTime(startTime) == startTime

\* scheduleNextPair(startTime) up to its first await.  sys holds the fields
\* the call can change: count, timers, pendingLoads, calls.
scheduleNextPairEntry(sys, startTime, isPlaying, nextPair, from) ==
    IF ~isPlaying THEN sys
    ELSE IF atCap(sys.count)
    THEN [sys EXCEPT !.timers =
            Append(@, Timer("deferred", startTime - FIVE_SECONDS, Null, Null, startTime, from))]
    ELSE IF nextPair = Null THEN [sys EXCEPT !.count = @ + 1]
    ELSE [sys EXCEPT
            !.count = @ + 1,
            !.pendingLoads = loadAudioBuffers(@, primaryUrls(sys.pairs[nextPair])),
            !.calls = Append(@, Call("scheduleNextPair", "preload", nextPair, startTime,
                                     unsettled(primaryUrls(sys.pairs[nextPair])), from,
                                     sys.count))]

Sys == [count |-> scheduledPairsCount, timers |-> timers,
        pendingLoads |-> pendingLoads, calls |-> calls, pairs |-> pairs]

SetSys(sys) ==
    /\ scheduledPairsCount' = sys.count
    /\ timers' = sys.timers
    /\ pendingLoads' = sys.pendingLoads
    /\ calls' = sys.calls

\* setupMFSwitchesForCurrentPair: the one switch timer is replaced
setupMFSwitches(tms, pair, mainStartTime) ==
    Append(SelectSeq(tms, LAMBDA t : t.kind # "mfSwitch"),
           Timer("mfSwitch", mainStartTime, pair, Null, mainStartTime, 0))

\* clearScheduled: the tracked timeouts and the switch timer are cancelled
clearScheduled(tms) ==
    SelectSeq(tms, LAMBDA t : t.kind \notin {"mainStart", "pairEnd", "mfSwitch"})

calculate4BarDuration(tempo) == (16 * 60 * TimeScale) \div tempo

\* ------------------------------------------------------------------------
\* getNextSong: the search along the path.  The path and its indexes are
\* passed as one record p so that the calls of one handler can be composed.
\* The outcome is the song and the record after the call; the song is
\* Undefined when the call never returns (no song of the library has the
\* tempo and the reset recurses without end).
\* ------------------------------------------------------------------------

Path == [path |-> hamiltonianPath, idx |-> pathIndexesByTempo]

\* this.hamiltonianPath = [...this.songs], and every index set to 0
resetPath == [path |-> songs, idx |-> [t \in Range(ALL_TEMPOS) |-> 0]]

\* the last statements of getNextSong, after the loop
afterSearch(p, tempo, fallbackSong) ==
    IF fallbackSong # Undefined THEN [song |-> fallbackSong, p |-> p]
    ELSE LET atTempo == SelectSeq(songs, LAMBDA s : s.bpm = tempo)
         IN  [song |-> IF atTempo # <<>> THEN atTempo[1] ELSE songs[1], p |-> resetPath]

RECURSIVE pathSearch(_, _, _, _, _, _, _, _)
\* the while loop of getNextSong, one iteration at a time
pathSearch(p, tempo, avoidArtists, startIndex, searchIndex, wrapped, attempts, fallbackSong) ==
    IF attempts >= 2 * Len(p.path) THEN afterSearch(p, tempo, fallbackSong)
    ELSE LET index == IF searchIndex >= Len(p.path) THEN 0 ELSE searchIndex
             hasWrapped == wrapped \/ searchIndex >= Len(p.path)
             song == p.path[index + 1]
             shouldAvoid == Len(avoidArtists) > 0 /\ song.artist \in Range(avoidArtists)
             fallback == IF song.bpm = tempo /\ fallbackSong = Undefined
                         THEN song ELSE fallbackSong
         IN  IF song.bpm = tempo /\ ~shouldAvoid
             THEN [song |-> song, p |-> [p EXCEPT !.idx[tempo] = index + 1]]
             ELSE IF hasWrapped /\ index + 1 >= startIndex
             THEN IF fallback # Undefined
                  THEN [song |-> fallback,
                        p |-> [p EXCEPT !.idx[tempo] = IndexOf(p.path, fallback)]]
                  ELSE IF \E i \in 1..Len(songs) : songs[i].bpm = tempo
                  THEN pathSearch(resetPath, tempo, <<>>, 0, 0, FALSE, 0, Undefined)
                  ELSE [song |-> Undefined, p |-> resetPath]
             ELSE pathSearch(p, tempo, avoidArtists, startIndex, index + 1, hasWrapped,
                             attempts + 1, fallback)

getNextSong(p, tempo, avoidArtists) ==
    LET p0 == IF Len(p.path) = 0 THEN resetPath ELSE p
    IN  pathSearch(p0, tempo, avoidArtists, p0.idx[tempo], p0.idx[tempo], FALSE, 0, Undefined)

\* the pair advanceToNextPair, setKey and setTempo build: two getNextSong
\* calls, the second avoiding the artist of the first; no hidden tracks
nextPairFromPath(p, entry, avoidArtists) ==
    LET first == getNextSong(p, entry.tempo, avoidArtists)
        second == getNextSong(first.p, entry.tempo, Append(avoidArtists, first.song.artist))
    IN  [pair |-> createTrackPair(first.song, second.song, entry.key, entry.tempo),
         p |-> second.p]

\* the artists of the two primary songs of a pair
artistsOf(pair) == <<SongById(pair.track1.song).artist, SongById(pair.track2.song).artist>>

\* ------------------------------------------------------------------------
\* play()
\* ------------------------------------------------------------------------

\* resume from pause
PlayResume ==
    /\ Idle
    /\ state.isPaused
    /\ ctxSuspended' = FALSE
    /\ state' = updateState(state, [isPlaying |-> TRUE, isPaused |-> FALSE])
    /\ userOps' = Append(userOps, "resume")
    /\ trace' = <<Emitted("stateChange", Null)>>
    /\ UNCHANGED <<failures, selVars, pairs, playHistory, precomputedPlaylist, precomputedIndex,
                   preloadedBuffers, pendingLoads, scheduledPairsCount, currentSources,
                   currentHiddenTrack, mannieFreshMode, eightZeroEightMode, timers, calls, now, ctxLag,
                   units, produced, lastReturn, decoded, envPlaylist>>

\* the precomputed playlist supplies the current and the next pair
PlayPlaylist ==
    /\ Idle /\ Spent < budget
    /\ ~state.isPaused
    /\ Len(precomputedPlaylist) > 0
    /\ precomputedIndex + 1 <= Len(precomputedPlaylist)
    /\ LET currentPair == precomputedPlaylist[precomputedIndex + 1]
           nextPair == IF precomputedIndex + 2 <= Len(precomputedPlaylist)
                       THEN precomputedPlaylist[precomputedIndex + 2] ELSE Null
           urls == primaryUrls(pairs[currentPair])
       IN  /\ pendingLoads' = loadAudioBuffers(pendingLoads, urls)
           /\ calls' = Append(calls,
                 [Call("play", "preloadCurrent", currentPair, NoTime, unsettled(urls), 0, 0)
                    EXCEPT !.next = nextPair])
    /\ ctxSuspended' = FALSE
    /\ userOps' = Append(userOps, "play")
    /\ trace' = <<>>
    /\ UNCHANGED <<failures, selVars, state, pairs, playHistory, precomputedPlaylist, precomputedIndex,
                   preloadedBuffers, scheduledPairsCount, currentSources,
                   currentHiddenTrack, mannieFreshMode, eightZeroEightMode, timers, now, ctxLag,
                   units, produced, lastReturn, decoded, envPlaylist>>

\* the first two pairs are selected: eight getNextSongSmart calls
PlayProgression ==
    /\ Idle /\ Spent < budget
    /\ ~state.isPaused
    /\ Len(precomputedPlaylist) = 0
    /\ LET entry1 == ProgressionAt(progressIndex)
           entry2 == ProgressionAt((progressIndex + 1) % ProgressionLength)
       IN  \E r \in runSelections(History, <<>>, playSteps(entry1, entry2), "play") :
             /\ SetHistory(r.h)
             /\ IF r.threw
                THEN UNCHANGED <<pairs, pendingLoads, calls>>
                ELSE LET currentPair == withHiddenTracks(
                             createTrackPair(r.picks[1], r.picks[2], entry1.key, entry1.tempo),
                             r.picks[5], r.picks[6])
                         nextPair == withHiddenTracks(
                             createTrackPair(r.picks[3], r.picks[4], entry2.key, entry2.tempo),
                             r.picks[7], r.picks[8])
                         urls == primaryUrls(currentPair) \o primaryUrls(nextPair)
                     IN  /\ pairs' = pairs \o <<currentPair, nextPair>>
                         /\ pendingLoads' = loadAudioBuffers(pendingLoads, urls)
                         /\ calls' = Append(calls,
                               [Call("play", "preloadBoth", Len(pairs) + 1, NoTime,
                                     unsettled(urls), 0, 0)
                                  EXCEPT !.next = Len(pairs) + 2])
    /\ ctxSuspended' = FALSE
    /\ userOps' = Append(userOps, "play")
    /\ UNCHANGED <<failures, libVars, progressIndex,
                   state, playHistory, precomputedPlaylist, precomputedIndex,
                   preloadedBuffers, scheduledPairsCount, currentSources,
                   currentHiddenTrack, mannieFreshMode, eightZeroEightMode, timers, now, ctxLag,
                   units, lastReturn, decoded, envPlaylist>>

\* play(), playlist branch: await this.preloadNextPair(nextPair)
PlayPreloadNext(i) ==
    /\ calls[i].op = "play" /\ calls[i].pc = "preloadCurrent" /\ calls[i].need = {}
    /\ calls[i].next # Null
    /\ LET urls == primaryUrls(pairs[calls[i].next])
       IN  /\ pendingLoads' = loadAudioBuffers(pendingLoads, urls)
           /\ calls' = [calls EXCEPT ![i].pc = "preloadNext", ![i].need = unsettled(urls)]
    /\ trace' = <<>>
    /\ UNCHANGED <<failures, selVars, state, pairs, playHistory, precomputedPlaylist, precomputedIndex,
                   preloadedBuffers, scheduledPairsCount, currentSources,
                   currentHiddenTrack, mannieFreshMode, eightZeroEightMode, timers, now, ctxLag, ctxSuspended,
                   units, produced, lastReturn, decoded, envPlaylist, userOps>>

\* ------------------------------------------------------------------------
\* playPair
\* ------------------------------------------------------------------------

\* this.playHistory.push(pair), at most 10 entries
pushHistory(hist, pair) ==
    LET pushed == Append(hist, pair)
    IN  IF Len(pushed) > 10 THEN Tail(pushed) ELSE pushed

\* playPair(pair) up to its await of the eight loads, run by the call cs[i]:
\* the pair joins the history hist and its songs the played set; without
\* hidden tracks pair.track3!.introUrl throws after the four primary loads
\* were started, and the catch emits 'error'
enterPlayPair(cs, i, pair, isPlaying, hist) ==
    IF ~isPlaying
    THEN /\ calls' = RemoveAt(cs, i)
         /\ playHistory' = hist
         /\ UNCHANGED <<playedSongIds, pendingLoads>>
    ELSE /\ playHistory' = pushHistory(hist, pair)
         /\ playedSongIds' = playedSongIds
                               \cup {pairs[pair].track1.song, pairs[pair].track2.song}
         /\ IF pairs[pair].track3 = NoTrack \/ pairs[pair].track4 = NoTrack
            THEN /\ calls' = RemoveAt(cs, i)
                 /\ pendingLoads' = loadAudioBuffers(pendingLoads, primaryUrls(pairs[pair]))
            ELSE LET urls == primaryUrls(pairs[pair]) \o hiddenUrls(pairs[pair])
                 IN  /\ pendingLoads' = loadAudioBuffers(pendingLoads, urls)
                     /\ calls' = [cs EXCEPT ![i].op = "playPair", ![i].pc = "load",
                                            ![i].pair = pair, ![i].t = NoTime,
                                            ![i].need = unsettled(urls)]

\* what playPair(pair) emits before its await: 'error' from its catch when
\* pair.track3!.introUrl or pair.track4!.introUrl throws
playPairEvents(pair, isPlaying) ==
    IF isPlaying /\ (pairs[pair].track3 = NoTrack \/ pairs[pair].track4 = NoTrack)
    THEN <<Emitted("error", pair)>> ELSE <<>>

\* play() after its preloads: the snapshot is replaced and playPair(currentPair)
\* runs up to its await of the eight loads
PlayStart(i) ==
    /\ calls[i].op = "play" /\ calls[i].need = {}
    /\ calls[i].pc \in {"preloadBoth", "preloadNext"}
         \/ (calls[i].pc = "preloadCurrent" /\ calls[i].next = Null)
    /\ LET pair == calls[i].pair
       IN  /\ state' = updateState(state,
                 [isPlaying |-> TRUE, isPaused |-> FALSE, currentPair |-> pair,
                  nextPair |-> calls[i].next, key |-> pairs[pair].key,
                  tempo |-> pairs[pair].tempo,
                  progressIndex |-> IF calls[i].pc = "preloadBoth"
                                    THEN progressIndex ELSE precomputedIndex])
           /\ enterPlayPair(calls, i, pair, TRUE, playHistory)
    /\ trace' = <<Emitted("stateChange", calls[i].pair)>> \o playPairEvents(calls[i].pair, TRUE)
    /\ UNCHANGED <<failures, libVars, progressIndex, playedPairs,
                   recentSongs, recentArtists, pairs, precomputedPlaylist, precomputedIndex,
                   preloadedBuffers, scheduledPairsCount, currentSources,
                   currentHiddenTrack, mannieFreshMode, eightZeroEightMode, timers, now, ctxLag, ctxSuspended,
                   units, produced, lastReturn, decoded, envPlaylist, userOps>>

\* playPair after its loads: eight sources, the switch timer, the events,
\* scheduleNextPair(pairEndTime) up to its first await, the two UI timers
PlayPairStart(i) ==
    /\ calls[i].op = "playPair" /\ calls[i].pc = "load" /\ calls[i].need = {}
    /\ LET pair == calls[i].pair
           pairStartTime == IF calls[i].t = NoTime
                            THEN currentTime + TENTH_OF_A_SECOND ELSE calls[i].t
           mainStartTime == pairStartTime + pairs[pair].track1.introDuration
           pairEndTime == mainStartTime + pairs[pair].track1.mainDuration
           sys0 == [Sys EXCEPT !.calls = RemoveAt(calls, i),
                               !.timers = setupMFSwitches(timers, pair, mainStartTime)]
           sys1 == scheduleNextPairEntry(sys0, pairEndTime, state.isPlaying,
                                         state.nextPair, Len(units) + 1)
       IN  /\ currentSources' = currentSources
                 \cup startSources(pair, {1, 2, 3, 4}, pairStartTime, mainStartTime)
           /\ units' = Append(units,
                 [Unit(pair, "playPair", pairStartTime, mainStartTime, pairEndTime,
                       0, 0, {1, 2, 3, 4})
                    EXCEPT !.by = calls[i].by, !.over = calls[i].over,
                           !.seen = calls[i].seen])
           /\ SetSys([sys1 EXCEPT !.timers = @ \o
                 <<Timer("mainStart", mainStartTime, pair, Null, NoTime, 0),
                   Timer("pairEnd", pairEndTime, pair, Null, NoTime, 0)>>])
    /\ currentHiddenTrack' = 3
    /\ trace' = <<Emitted("pairStart", calls[i].pair), Emitted("introStart", calls[i].pair)>>
    /\ UNCHANGED <<failures, selVars, state, pairs, playHistory, precomputedPlaylist, precomputedIndex,
                   preloadedBuffers, mannieFreshMode, eightZeroEightMode, now, ctxLag, ctxSuspended,
                   produced, lastReturn, decoded, envPlaylist, userOps>>

\* ------------------------------------------------------------------------
\* scheduleNextPair after its first await
\* ------------------------------------------------------------------------

\* after the preload: pairToSchedule = this.state.nextPair, and its four
\* primary loads
SnpPreloaded(i) ==
    /\ calls[i].op = "scheduleNextPair" /\ calls[i].pc = "preload" /\ calls[i].need = {}
    /\ IF state.nextPair = Null
       THEN \* pairToSchedule.track1 throws; the catch emits 'error'
            /\ calls' = RemoveAt(calls, i)
            /\ UNCHANGED pendingLoads
       ELSE LET urls == primaryUrls(pairs[state.nextPair])
            IN  /\ pendingLoads' = loadAudioBuffers(pendingLoads, urls)
                /\ calls' = [calls EXCEPT ![i].pc = "load", ![i].pair = state.nextPair,
                                          ![i].need = unsettled(urls)]
    /\ trace' = <<>>
    /\ UNCHANGED <<failures, selVars, state, pairs, playHistory, precomputedPlaylist, precomputedIndex,
                   preloadedBuffers, scheduledPairsCount, currentSources,
                   currentHiddenTrack, mannieFreshMode, eightZeroEightMode, timers, now, ctxLag, ctxSuspended,
                   units, produced, lastReturn, decoded, envPlaylist, userOps>>

\* after the primary loads: the four primary sources are started at
\* startTime, then scheduleHiddenTracksForScheduledPair gives the pair its
\* hidden tracks if it has none (two getNextSong calls) and awaits the
\* hidden loads
SnpLoaded(i) ==
    /\ calls[i].op = "scheduleNextPair" /\ calls[i].pc = "load" /\ calls[i].need = {}
    /\ LET pair == calls[i].pair
           startTime == calls[i].t
           mainStartTime == startTime + pairs[pair].track1.introDuration
           pairEndTime == mainStartTime + pairs[pair].track1.mainDuration
           bare == pairs[pair].track3 = NoTrack \/ pairs[pair].track4 = NoTrack
           song3 == getNextSong(Path, pairs[pair].tempo, artistsOf(pairs[pair]))
           song4 == getNextSong(song3.p, pairs[pair].tempo,
                                Append(artistsOf(pairs[pair]), song3.song.artist))
           full == IF bare THEN withHiddenTracks(pairs[pair], song3.song, song4.song)
                   ELSE pairs[pair]
           urls == hiddenUrls(full)
       IN  /\ currentSources' = currentSources
                 \cup startSources(pair, {1, 2}, startTime, mainStartTime)
           /\ units' = Append(units, Unit(pair, "scheduleNextPair", startTime, mainStartTime,
                                          pairEndTime, calls[i].from, calls[i].entryCount,
                                          {1, 2}))
           /\ pairs' = [pairs EXCEPT ![pair] = full]
           /\ hamiltonianPath' = IF bare THEN song4.p.path ELSE hamiltonianPath
           /\ pathIndexesByTempo' = IF bare THEN song4.p.idx ELSE pathIndexesByTempo
           /\ pendingLoads' = loadAudioBuffers(pendingLoads, urls)
           /\ calls' = [calls EXCEPT ![i].pc = "hidden", ![i].need = unsettled(urls),
                                     ![i].unit = Len(units) + 1]
    /\ trace' = <<>>
    /\ UNCHANGED <<failures, fixedVars, progression, progressIndex, playedSongIds,
                   state, playHistory, precomputedPlaylist, precomputedIndex,
                   preloadedBuffers, scheduledPairsCount,
                   currentHiddenTrack, mannieFreshMode, eightZeroEightMode, timers, now, ctxLag, ctxSuspended,
                   produced, lastReturn, decoded, envPlaylist, userOps>>

\* the end of scheduleNextPair once newNextPair is known: the snapshot's
\* nextPair is overwritten in place, three timers are set, and
\* scheduleNextPair(pairEndTime) is called
finishSchedule(i, newNextPair, allPairs) ==
    LET pair == calls[i].pair
        startTime == calls[i].t
        mainStartTime == startTime + allPairs[pair].track1.introDuration
        pairEndTime == mainStartTime + allPairs[pair].track1.mainDuration
        sys0 == [Sys EXCEPT !.calls = RemoveAt(calls, i), !.pairs = allPairs,
                   !.timers = @ \o
                     <<Timer("pairStart", startTime, pair, newNextPair, mainStartTime, 0),
                       Timer("mainStartNext", mainStartTime, pair, Null, NoTime, 0),
                       Timer("pairEndNext", pairEndTime, pair, Null, NoTime, 0)>>]
    IN  /\ state' = [state EXCEPT !.nextPair = newNextPair]
        /\ SetSys(scheduleNextPairEntry(sys0, pairEndTime, state.isPlaying, newNextPair,
                                        calls[i].unit))

\* the hidden sources of the pair, started by scheduleHiddenTracks
hiddenStarted(i) ==
    LET pair == calls[i].pair
        startTime == calls[i].t
        mainStartTime == startTime + Max2(pairs[pair].track1.introDuration,
                                          pairs[pair].track2.introDuration)
    IN  /\ currentSources' = currentSources
              \cup startSources(pair, {3, 4}, startTime, mainStartTime)
        /\ units' = [units EXCEPT ![calls[i].unit].tracks = @ \cup {3, 4}]
        /\ playHistory' = Append(playHistory, pair)

\* after the hidden loads, progression-driven: the new next pair is selected
SnpHiddenProgression(i) ==
    /\ calls[i].op = "scheduleNextPair" /\ calls[i].pc = "hidden" /\ calls[i].need = {}
    /\ Len(precomputedPlaylist) = 0
    /\ hiddenStarted(i)
    /\ LET pair == pairs[calls[i].pair]
           index == (progressIndex + 1) % ProgressionLength
           nextEntry == ProgressionAt((index + 1) % ProgressionLength)
           h0 == [History EXCEPT !.played = @ \cup {pair.track1.song, pair.track2.song}]
           lead == <<SongById(pair.track1.song).artist, SongById(pair.track2.song).artist>>
       IN  /\ progressIndex' = index
           /\ \E r \in runSelections(h0, <<>>, nextPairSteps(nextEntry, lead),
                                     "scheduleNextPair") :
                /\ SetHistory(r.h)
                /\ IF r.threw
                   THEN \* the catch emits 'error'
                        /\ calls' = RemoveAt(calls, i)
                        /\ UNCHANGED <<state, pairs, timers, scheduledPairsCount, pendingLoads>>
                   ELSE LET newNextPair == withHiddenTracks(
                                createTrackPair(r.picks[1], r.picks[2],
                                                nextEntry.key, nextEntry.tempo),
                                r.picks[3], r.picks[4])
                        IN  /\ pairs' = Append(pairs, newNextPair)
                            /\ finishSchedule(i, Len(pairs) + 1, Append(pairs, newNextPair))
    /\ UNCHANGED <<failures, libVars, precomputedPlaylist, precomputedIndex,
                   preloadedBuffers, currentHiddenTrack, mannieFreshMode, eightZeroEightMode, now, ctxLag,
                   ctxSuspended, lastReturn, decoded, envPlaylist, userOps>>

\* after the hidden loads, playlist-driven: the index advances, or a new mix
\* is generated when the last pair but one was reached
SnpHiddenPlaylist(i) ==
    /\ calls[i].op = "scheduleNextPair" /\ calls[i].pc = "hidden" /\ calls[i].need = {}
    /\ Len(precomputedPlaylist) > 0
    /\ hiddenStarted(i)
    /\ LET pair == pairs[calls[i].pair]
           h0 == [History EXCEPT !.played = @ \cup {pair.track1.song, pair.track2.song}]
           isLastPair == precomputedIndex >= Len(precomputedPlaylist) - 2
       IN  \E r \in (IF isLastPair THEN generateCompleteMix(h0)
                     ELSE {[h |-> h0, mix |-> <<>>]}) :
             LET allPairs == pairs \o r.mix
                 playlist == IF isLastPair
                             THEN [k \in 1..Len(r.mix) |-> Len(pairs) + k]
                             ELSE precomputedPlaylist
                 index == IF isLastPair THEN 0 ELSE precomputedIndex + 1
             IN  /\ SetHistory(r.h)
                 /\ pairs' = allPairs
                 /\ precomputedPlaylist' = playlist
                 /\ precomputedIndex' = index
                 /\ IF Len(playlist) = 0
                    THEN \* 'Failed to get next pair from precomputed playlist'
                         /\ calls' = RemoveAt(calls, i)
                         /\ UNCHANGED <<state, timers, scheduledPairsCount, pendingLoads,
                                        progressIndex>>
                    ELSE /\ progressIndex' = index
                         /\ finishSchedule(i, playlist[((index + 1) % Len(playlist)) + 1],
                                           allPairs)
    /\ UNCHANGED <<failures, libVars,
                   preloadedBuffers, currentHiddenTrack, mannieFreshMode, eightZeroEightMode, now, ctxLag,
                   ctxSuspended, lastReturn, decoded, envPlaylist, userOps>>

\* ------------------------------------------------------------------------
\* Timers.  The callback run is the one due first; among equal deadlines the
\* one registered first.
\* ------------------------------------------------------------------------

Due(k) ==
    /\ k \in 1..Len(timers)
    /\ timers[k].at <= now
    /\ \A j \in 1..Len(timers) :
          j # k => (timers[j].at > timers[k].at \/ (timers[j].at = timers[k].at /\ j > k))

\* the deferred attempt: void this.scheduleNextPair(startTime)
FireDeferred(k) ==
    /\ Idle /\ Due(k) /\ timers[k].kind = "deferred"
    /\ SetSys(scheduleNextPairEntry([Sys EXCEPT !.timers = RemoveAt(timers, k)],
                                    retryStartTime(timers[k].t), state.isPlaying,
                                    state.nextPair, timers[k].from))
    /\ trace' = <<>>
    /\ UNCHANGED <<failures, selVars, state, pairs, playHistory, precomputedPlaylist, precomputedIndex,
                   preloadedBuffers, currentSources, currentHiddenTrack, mannieFreshMode, eightZeroEightMode,
                   now, ctxLag, ctxSuspended,
                   units, produced, lastReturn, decoded, envPlaylist, userOps>>

\* the pre-scheduled pair becomes current: the look-ahead slot is released
FirePairStart(k) ==
    /\ Idle /\ Due(k) /\ timers[k].kind = "pairStart"
    /\ IF ~state.isPlaying
       THEN /\ timers' = RemoveAt(timers, k)
            /\ UNCHANGED <<state, scheduledPairsCount, currentHiddenTrack>>
       ELSE LET currentEntry == ProgressionAt(progressIndex)
                pair == timers[k].pair
                hidden == pairs[pair].track3 # NoTrack /\ pairs[pair].track4 # NoTrack
                reached == hidden /\ ~ended(<<"stateChange", "pairStart", "introStart">>)
            IN  /\ scheduledPairsCount' = IF scheduledPairsCount > 0
                                          THEN scheduledPairsCount - 1 ELSE scheduledPairsCount
                /\ state' = updateState(state,
                      [currentPair |-> pair, nextPair |-> timers[k].next,
                       key |-> currentEntry.key, tempo |-> currentEntry.tempo,
                       progressIndex |-> progressIndex])
                /\ timers' = IF reached
                             THEN setupMFSwitches(RemoveAt(timers, k), pair, timers[k].t)
                             ELSE RemoveAt(timers, k)
                /\ currentHiddenTrack' = IF reached THEN 3 ELSE currentHiddenTrack
    /\ trace' = IF state.isPlaying
                THEN emitInTurn(<<"stateChange", "pairStart", "introStart">>, timers[k].pair)
                ELSE <<>>
    /\ UNCHANGED <<failures, selVars, pairs, playHistory, precomputedPlaylist, precomputedIndex,
                   preloadedBuffers, pendingLoads, currentSources, mannieFreshMode, eightZeroEightMode, calls,
                   now, ctxLag, ctxSuspended,
                   units, produced, lastReturn, decoded, envPlaylist, userOps>>

\* the callbacks that only emit 'mainStart' or 'pairEnd'
FireEmit(k) ==
    /\ Idle /\ Due(k)
    /\ timers[k].kind \in {"mainStart", "pairEnd", "mainStartNext", "pairEndNext"}
    /\ timers' = RemoveAt(timers, k)
    /\ trace' = <<Emitted(IF timers[k].kind \in {"mainStart", "mainStartNext"}
                           THEN "mainStart" ELSE "pairEnd", timers[k].pair)>>
    /\ UNCHANGED <<failures, selVars, state, pairs, playHistory, precomputedPlaylist, precomputedIndex,
                   preloadedBuffers, pendingLoads, scheduledPairsCount, currentSources,
                   currentHiddenTrack, mannieFreshMode, eightZeroEightMode, calls, now, ctxLag, ctxSuspended,
                   units, produced, lastReturn, decoded, envPlaylist, userOps>>

\* the snapshot's tempo in place of the current pair's
currentPairTempoLive(st, pair) == st.tempo

\* this.state.currentPair?.tempo || pair.tempo
currentPairTempo(st, pair) ==
    IF st.currentPair # Null THEN pairs[st.currentPair].tempo ELSE pairs[pair].tempo

\* the hidden-track switch: alternate 3 and 4, and set the next switch.  The
\* from field of the timer it sets is history: the snapshot's tempo at the
\* switch.
FireMfSwitch(k) ==
    /\ Idle /\ Due(k) /\ timers[k].kind = "mfSwitch"
    /\ IF ~mannieFreshMode \/ ~state.isPlaying
       THEN /\ timers' = RemoveAt(timers, k)
            /\ UNCHANGED <<state, currentHiddenTrack>>
       ELSE LET nextTime == timers[k].t
                              + calculate4BarDuration(currentPairTempo(state, timers[k].pair))
                switched == IF currentHiddenTrack = 3 THEN 4 ELSE 3
            IN  /\ currentHiddenTrack' = switched
                /\ state' = updateState(state, [activeHiddenTrack |-> switched])
                /\ timers' = Append(RemoveAt(timers, k),
                                    Timer("mfSwitch", nextTime, timers[k].pair, Null, nextTime,
                                          state.tempo))
    /\ trace' = IF mannieFreshMode /\ state.isPlaying
                THEN <<Emitted("stateChange", timers[k].pair)>> ELSE <<>>
    /\ UNCHANGED <<failures, selVars, pairs, playHistory, precomputedPlaylist, precomputedIndex,
                   preloadedBuffers, pendingLoads, scheduledPairsCount, currentSources,
                   mannieFreshMode, eightZeroEightMode, calls, now, ctxLag, ctxSuspended,
                   units, produced, lastReturn, decoded, envPlaylist, userOps>>

\* time passes up to the next deadline
Tick ==
    /\ Idle
    /\ Len(timers) > 0
    /\ \A k \in 1..Len(timers) : timers[k].at > now
    /\ \A j \in 1..Len(pendingLoads) : pendingLoads[j].stage # "fetch"
    /\ LET next == SetMin({timers[k].at : k \in 1..Len(timers)})
       IN  /\ next <= horizon
           /\ now' = next
           /\ ctxLag' = IF ctxSuspended THEN ctxLag + (next - now) ELSE ctxLag
    /\ trace' = <<>>
    /\ UNCHANGED <<failures, selVars, state, pairs, playHistory, precomputedPlaylist, precomputedIndex,
                   preloadedBuffers, pendingLoads, scheduledPairsCount, currentSources,
                   currentHiddenTrack, mannieFreshMode, eightZeroEightMode, timers, calls, ctxSuspended,
                   units, produced, lastReturn, decoded, envPlaylist, userOps>>

\* ------------------------------------------------------------------------
\* Loads.  The fetches in flight settle oldest first.
\* ------------------------------------------------------------------------

CACHE_LIMIT == 12

MAX_RETRIES == 3

BACKOFF_BASE == TimeScale \div 2

RECURSIVE Pow2(_)
Pow2(n) == IF n = 0 THEN 1 ELSE 2 * Pow2(n - 1)

FirstFetch(k) ==
    /\ k \in 1..Len(pendingLoads)
    /\ pendingLoads[k].stage = "fetch"
    /\ \A j \in 1..(k - 1) : pendingLoads[j].stage # "fetch"

\* the cache without the size test
cacheSetUnbounded(cache, url) ==
    IF url \in Range(cache) THEN cache ELSE Append(cache, url)

\* this.preloadedBuffers.set(url, buffer), then the oldest entry is dropped
\* when there are more than 12
cacheSet(cache, url) ==
    LET added == IF url \in Range(cache) THEN cache ELSE Append(cache, url)
    IN  IF Len(added) > CACHE_LIMIT THEN Tail(added) ELSE added

settle(cs, url) == [j \in 1..Len(cs) |-> [cs[j] EXCEPT !.need = @ \ {url}]]

\* fetch and decode succeed: the buffer is cached and the waiters resume
LoadDone(k) ==
    /\ Idle /\ FirstFetch(k)
    /\ preloadedBuffers' = cacheSet(preloadedBuffers, pendingLoads[k].url)
    /\ decoded' = decoded \cup {pendingLoads[k].url}
    /\ pendingLoads' = RemoveAt(pendingLoads, k)
    /\ calls' = settle(calls, pendingLoads[k].url)
    /\ trace' = <<>>
    /\ UNCHANGED <<failures, selVars, state, pairs, playHistory, precomputedPlaylist, precomputedIndex,
                   scheduledPairsCount, currentSources, currentHiddenTrack, mannieFreshMode, eightZeroEightMode,
                   timers, now, ctxLag, ctxSuspended,
                   units, produced, lastReturn, envPlaylist, userOps>>

\* fetch or decode fails: performLoad waits for the backoff delay
LoadFail(k) ==
    /\ Idle /\ FirstFetch(k)
    /\ pendingLoads[k].retryCount < MAX_RETRIES
    /\ failures < MaxFailures
    /\ failures' = failures + 1
    /\ pendingLoads' = [pendingLoads EXCEPT ![k].stage = "backoff"]
    /\ timers' = Append(timers,
          [kind |-> "retry", at |-> now + Pow2(pendingLoads[k].retryCount) * BACKOFF_BASE,
           pair |-> Null, next |-> Null, t |-> NoTime, from |-> 0,
           url |-> pendingLoads[k].url])
    /\ trace' = <<>>
    /\ UNCHANGED <<selVars, state, pairs, playHistory, precomputedPlaylist, precomputedIndex,
                   preloadedBuffers, scheduledPairsCount, currentSources, currentHiddenTrack,
                   mannieFreshMode, eightZeroEightMode, calls, now, ctxLag, ctxSuspended,
                   units, produced, lastReturn, decoded, envPlaylist, userOps>>

\* after the backoff: return this.loadAudioBuffer(url, retryCount + 1).  The
\* url is still in pendingLoads, so the call awaits the promise it is itself
\* part of, which never settles.
FireRetry(k) ==
    /\ Idle /\ Due(k) /\ timers[k].kind = "retry"
    /\ timers' = RemoveAt(timers, k)
    /\ LET url == timers[k].url
           j == CHOOSE j \in 1..Len(pendingLoads) : pendingLoads[j].url = url
       IN  IF isCached(url)
           THEN /\ pendingLoads' = RemoveAt(pendingLoads, j)
                /\ calls' = settle(calls, url)
           ELSE IF isPending(pendingLoads, url)
           THEN /\ pendingLoads' = [pendingLoads EXCEPT ![j].stage = "stuck"]
                /\ UNCHANGED calls
           ELSE /\ pendingLoads' = Append(pendingLoads,
                      [url |-> url, stage |-> "fetch", retryCount |-> 1])
                /\ UNCHANGED calls
    /\ trace' = <<>>
    /\ UNCHANGED <<failures, selVars, state, pairs, playHistory, precomputedPlaylist, precomputedIndex,
                   preloadedBuffers, scheduledPairsCount, currentSources, currentHiddenTrack,
                   mannieFreshMode, eightZeroEightMode, now, ctxLag, ctxSuspended,
                   units, produced, lastReturn, decoded, envPlaylist, userOps>>

\* ------------------------------------------------------------------------
\* stop() and pause()
\* ------------------------------------------------------------------------

Stop ==
    /\ Idle /\ Spent < budget
    /\ timers' = clearScheduled(timers)
    /\ currentSources' = {}
    /\ preloadedBuffers' = <<>>
    /\ scheduledPairsCount' = 0
    /\ state' = updateState(state, [isPlaying |-> FALSE, isPaused |-> FALSE,
                                    currentPair |-> Null, nextPair |-> Null])
    /\ userOps' = Append(userOps, "stop")
    /\ trace' = <<Emitted("stateChange", Null)>>
    /\ UNCHANGED <<failures, selVars, pairs, playHistory, precomputedPlaylist, precomputedIndex,
                   pendingLoads, currentHiddenTrack, mannieFreshMode, eightZeroEightMode, calls,
                   now, ctxLag, ctxSuspended,
                   units, produced, lastReturn, decoded, envPlaylist>>

\* a pause() that acts whatever the snapshot says
pauseReturnsNever(st) == FALSE

\* if (!this.state.isPlaying || this.state.isPaused) return;
pauseReturns(st) == ~st.isPlaying \/ st.isPaused

Pause ==
    /\ Idle /\ Spent < budget
    /\ userOps' = Append(userOps, "pause")
    /\ IF pauseReturns(state)
       THEN /\ trace' = <<>>
            /\ UNCHANGED <<ctxSuspended, timers, state>>
       ELSE /\ ctxSuspended' = TRUE
            /\ timers' = clearScheduled(timers)
            /\ state' = updateState(state, [isPaused |-> TRUE, isPlaying |-> FALSE])
            /\ trace' = <<Emitted("stateChange", Null)>>
    /\ UNCHANGED <<failures, selVars, pairs, playHistory, precomputedPlaylist, precomputedIndex,
                   preloadedBuffers, pendingLoads, scheduledPairsCount, currentSources,
                   currentHiddenTrack, mannieFreshMode, eightZeroEightMode, calls, now, ctxLag,
                   units, produced, lastReturn, decoded, envPlaylist>>

\* ------------------------------------------------------------------------
\* skipForward(), advanceToNextPair, skipBack()
\* ------------------------------------------------------------------------

\* skipForward(): the tracked timers are cancelled, every source is stopped,
\* and advanceToNextPair() runs up to its await of the preload
SkipForward ==
    /\ Idle /\ Spent < budget
    /\ userOps' = Append(userOps, "skipForward")
    /\ trace' = <<>>
    /\ IF ~state.isPlaying
       THEN UNCHANGED <<timers, currentSources, progressIndex, pairs, hamiltonianPath,
                        pathIndexesByTempo, pendingLoads, calls>>
       ELSE /\ timers' = clearScheduled(timers)
            /\ currentSources' = {}
            /\ progressIndex' = (progressIndex + 1) % ProgressionLength
            /\ IF state.nextPair = Null
               THEN UNCHANGED <<pairs, hamiltonianPath, pathIndexesByTempo, pendingLoads, calls>>
               ELSE LET nextEntry == ProgressionAt((progressIndex + 2) % ProgressionLength)
                        newCurrent == state.nextPair
                        r == nextPairFromPath(Path, nextEntry, artistsOf(pairs[newCurrent]))
                        urls == primaryUrls(r.pair)
                    IN  /\ pairs' = Append(pairs, r.pair)
                        /\ hamiltonianPath' = r.p.path
                        /\ pathIndexesByTempo' = r.p.idx
                        /\ pendingLoads' = loadAudioBuffers(pendingLoads, urls)
                        /\ calls' = Append(calls,
                              [Call("advanceToNextPair", "preload", newCurrent, NoTime,
                                    unsettled(urls), 0, 0)
                                 EXCEPT !.next = Len(pairs) + 1, !.by = "skipForward",
                                        !.over = audibleUnit, !.seen = Len(units)])
    /\ UNCHANGED <<failures, fixedVars, progression, playedSongIds,
                   state, playHistory, precomputedPlaylist, precomputedIndex,
                   preloadedBuffers, scheduledPairsCount, currentHiddenTrack, mannieFreshMode, eightZeroEightMode,
                   now, ctxLag, ctxSuspended,
                   units, produced, lastReturn, decoded, envPlaylist>>

\* advanceToNextPair after its preload: the snapshot is replaced and
\* playPair(newCurrent) runs up to its await of the eight loads
AdvanceStart(i) ==
    /\ calls[i].op = "advanceToNextPair" /\ calls[i].need = {}
    /\ LET pair == calls[i].pair
           entry == ProgressionAt(progressIndex)
       IN  /\ state' = updateState(state,
                 [currentPair |-> pair, nextPair |-> calls[i].next, key |-> entry.key,
                  tempo |-> entry.tempo, progressIndex |-> progressIndex])
           /\ enterPlayPair(calls, i, pair, state.isPlaying, playHistory)
    /\ trace' = <<Emitted("stateChange", calls[i].pair)>>
                   \o playPairEvents(calls[i].pair, state.isPlaying)
    /\ UNCHANGED <<failures, libVars, progressIndex, playedPairs,
                   recentSongs, recentArtists, pairs, precomputedPlaylist, precomputedIndex,
                   preloadedBuffers, scheduledPairsCount, currentSources,
                   currentHiddenTrack, mannieFreshMode, eightZeroEightMode, timers, now, ctxLag, ctxSuspended,
                   units, produced, lastReturn, decoded, envPlaylist, userOps>>

\* skipBack(): the last two entries of the history are popped, the tracked
\* timers are cancelled, every source is stopped, and playPair(prevPair) runs
\* up to its await of the eight loads
SkipBack ==
    /\ Idle /\ Spent < budget
    /\ userOps' = Append(userOps, "skipBack")
    /\ IF ~state.isPlaying \/ Len(playHistory) < 2
       THEN /\ trace' = <<>>
            /\ UNCHANGED <<timers, currentSources, progressIndex, state, playHistory,
                           playedSongIds, pendingLoads, calls>>
       ELSE LET prevPair == playHistory[Len(playHistory) - 1]
                index == (progressIndex - 1 + ProgressionLength) % ProgressionLength
                call == [Call("skipBack", "start", prevPair, NoTime, {}, 0, 0)
                           EXCEPT !.over = audibleUnit, !.seen = Len(units)]
            IN  /\ timers' = clearScheduled(timers)
                /\ currentSources' = {}
                /\ progressIndex' = index
                /\ state' = updateState(state,
                      [currentPair |-> prevPair, key |-> pairs[prevPair].key,
                       tempo |-> pairs[prevPair].tempo, progressIndex |-> index])
                /\ enterPlayPair(Append(calls, call), Len(calls) + 1, prevPair,
                                 state.isPlaying, SubSeq(playHistory, 1, Len(playHistory) - 2))
                /\ trace' = <<Emitted("stateChange", prevPair)>>
                               \o playPairEvents(prevPair, state.isPlaying)
    /\ UNCHANGED <<failures, fixedVars, progression, hamiltonianPath, pathIndexesByTempo,
                   pairs, precomputedPlaylist, precomputedIndex,
                   preloadedBuffers, scheduledPairsCount, currentHiddenTrack, mannieFreshMode, eightZeroEightMode,
                   now, ctxLag, ctxSuspended,
                   units, produced, lastReturn, decoded, envPlaylist>>

\* ------------------------------------------------------------------------
\* setKey(key), setTempo(tempo), recalculateHamiltonianPath
\* ------------------------------------------------------------------------

\* recalculateHamiltonianPath: the path becomes the unplayed songs, or every
\* song with the played set cleared when fewer than twenty are unplayed
recalculateHamiltonianPath ==
    LET unplayedSongs == SelectSeq(songs, LAMBDA song : song.id \notin playedSongIds)
        few == Len(unplayedSongs) < RESET_THRESHOLD
    IN  [played |-> IF few THEN {} ELSE playedSongIds,
         p |-> [path |-> IF few THEN songs ELSE unplayedSongs,
                idx |-> [t \in Range(ALL_TEMPOS) |-> 0]]]

\* the updates setKey passes to updateState while playing
keyUpdates(key, newNext) == [key |-> key, nextPair |-> newNext, progressIndex |-> 0]

\* the updates setTempo passes to updateState while playing
tempoUpdates(tempo, newNext) == [tempo |-> tempo, nextPair |-> newNext, progressIndex |-> 0]

\* setKey or setTempo with the progression restarted from (key, tempo)
restartFrom(key, tempo, idleUpdates, playingUpdates) ==
    /\ progression' = [key |-> key, tempo |-> tempo]
    /\ progressIndex' = 0
    /\ IF ~state.isPlaying
       THEN /\ state' = updateState(state, idleUpdates)
            /\ UNCHANGED <<playedSongIds, hamiltonianPath, pathIndexesByTempo, pairs,
                           pendingLoads>>
       ELSE LET fresh == generateProgressionFromPoint(key, tempo)
                nextEntry == fresh[(1 % Len(fresh)) + 1]
                recalculated == recalculateHamiltonianPath
                avoidArtists == IF state.currentPair # Null
                                THEN artistsOf(pairs[state.currentPair]) ELSE <<>>
                r == nextPairFromPath(recalculated.p, nextEntry, avoidArtists)
            IN  /\ playedSongIds' = recalculated.played
                /\ hamiltonianPath' = r.p.path
                /\ pathIndexesByTempo' = r.p.idx
                /\ pairs' = Append(pairs, r.pair)
                /\ state' = updateState(state, playingUpdates)
                /\ pendingLoads' = loadAudioBuffers(pendingLoads, primaryUrls(r.pair))
    /\ trace' = <<Emitted("stateChange", state.currentPair)>>
    /\ UNCHANGED <<failures, fixedVars, playHistory, precomputedPlaylist, precomputedIndex,
                   preloadedBuffers, scheduledPairsCount, currentSources, currentHiddenTrack,
                   mannieFreshMode, eightZeroEightMode, timers, calls, now, ctxLag, ctxSuspended,
                   units, produced, lastReturn, decoded, envPlaylist>>

\* the keys and the tempos the page asks for
KeyChoices == {3}

TempoChoices == {94}

SetKeyTo(key) ==
    /\ Idle /\ Spent < budget
    /\ userOps' = Append(userOps, "setKey")
    /\ restartFrom(key, state.tempo, [key |-> key], keyUpdates(key, Len(pairs) + 1))

SetKey == \E key \in KeyChoices : SetKeyTo(key)

SetTempoTo(tempo) ==
    /\ Idle /\ Spent < budget
    /\ userOps' = Append(userOps, "setTempo")
    /\ restartFrom(state.key, tempo, [tempo |-> tempo], tempoUpdates(tempo, Len(pairs) + 1))

SetTempo == \E tempo \in TempoChoices : SetTempoTo(tempo)

\* ------------------------------------------------------------------------
\* Playlists: generateCompleteMix, decodePlaylistFromURL, setPrecomputedPlaylist
\* ------------------------------------------------------------------------

\* The url parameter is a string, read one character at a time.
isDigit(c) == c \in {"0", "1", "2", "3", "4", "5", "6", "7", "8", "9"}

digitValue(c) ==
    CASE c = "0" -> 0 [] c = "1" -> 1 [] c = "2" -> 2 [] c = "3" -> 3 [] c = "4" -> 4
      [] c = "5" -> 5 [] c = "6" -> 6 [] c = "7" -> 7 [] c = "8" -> 8 [] c = "9" -> 9

digitChar(d) == SubSeq("0123456789", d + 1, d + 1)

\* Number.prototype.toString of an integer
RECURSIVE toString(_)
toString(n) ==
    IF n < 0 THEN "-" \o toString(0 - n)
    ELSE IF n < 10 THEN digitChar(n)
    ELSE toString(n \div 10) \o digitChar(n % 10)

\* Array.prototype.join
RECURSIVE join(_, _)
join(parts, sep) ==
    IF parts = <<>> THEN ""
    ELSE IF Len(parts) = 1 THEN parts[1]
    ELSE parts[1] \o sep \o join(Tail(parts), sep)

\* String.prototype.split on a one-character separator: the empty string
\* splits into one empty field
split(s, sep) ==
    LET at == {i \in 1..Len(s) : SubSeq(s, i, i) = sep}
        \* where the k-th separator is; the two ends stand for separators
        bound(k) == IF k = 0 THEN 0
                    ELSE IF k > Cardinality(at) THEN Len(s) + 1
                    ELSE CHOOSE i \in at : Cardinality({j \in at : j <= i}) = k
    IN  [k \in 1..(Cardinality(at) + 1) |-> SubSeq(s, bound(k - 1) + 1, bound(k) - 1)]

\* a parsed field: NaN, or the one-element tuple of its number
NaN == <<>>

RECURSIVE trimStart(_)
trimStart(s) == IF s # "" /\ Head(s) = " " THEN trimStart(Tail(s)) ELSE s

\* the number of the leading run of digits of s, following the value read
\* so far; what follows the run is ignored
RECURSIVE leadingDigits(_, _)
leadingDigits(s, read) ==
    IF s = "" \/ ~isDigit(Head(s)) THEN read
    ELSE leadingDigits(Tail(s),
                       <<(IF read = NaN THEN 0 ELSE 10 * read[1]) + digitValue(Head(s))>>)

\* parseInt(s, 10): leading blanks, a sign, then the leading digits; NaN
\* when there is no digit there
parseInt(s) ==
    LET t == trimStart(s)
        signed == t # "" /\ Head(t) \in {"-", "+"}
        magnitude == leadingDigits(IF signed THEN Tail(t) ELSE t, NaN)
    IN  IF magnitude = NaN THEN NaN
        ELSE IF signed /\ Head(t) = "-" THEN <<0 - magnitude[1]>>
        ELSE magnitude

\* !v of a parsed field: NaN and 0 are falsy
falsy(v) == v = NaN \/ v = <<0>>

\* pair.track3?.song.id.toString() || '0'
hiddenId(track) == IF track = NoTrack THEN "0" ELSE toString(track.song)

encodePair(pair) ==
    join(<<toString(pair.key), toString(pair.tempo), toString(pair.track1.song),
           toString(pair.track2.song), hiddenId(pair.track3), hiddenId(pair.track4)>>, ",")

encodePlaylistToURL(playlist) ==
    join([k \in 1..Len(playlist) |-> encodePair(playlist[k])], "|")

\* the urls the page is opened with
UrlOnePair == "1,84,1,2,3,4"

UrlTwoPairs == "1,84,1,2,3,4|2,94,5,6,7,8"

UrlThreePairs == "1,84,1,2,3,4|2,94,5,6,7,8|3,84,3,4,1,2"

Urls == {UrlOnePair, UrlTwoPairs, UrlThreePairs}

hasSong(id) == \E k \in 1..Len(songs) : songs[k].id = id

\* pairStr.split(',').map(p => parseInt(p, 10))
parseParts(pairStr) ==
    LET fields == split(pairStr, ",")
    IN  [k \in 1..Len(fields) |-> parseInt(fields[k])]

\* the entries that yield a pair: six parts, key, tempo and the two primary
\* ids truthy, both primary songs in the library
decodable(parts) ==
    /\ Len(parts) = 6
    /\ ~falsy(parts[1]) /\ ~falsy(parts[2]) /\ ~falsy(parts[3]) /\ ~falsy(parts[4])
    /\ hasSong(parts[3][1]) /\ hasSong(parts[4][1])

hiddenTrackNever(id, tempo) == NoTrack

\* id3 && id3 !== 0 ? this.songs.find(...) : undefined, then the track of
\* the song found, if any
hiddenTrack(id, tempo) ==
    IF ~falsy(id) /\ hasSong(id[1]) THEN createTrack(SongById(id[1]), tempo) ELSE NoTrack

decodePair(parts) ==
    [track1 |-> createTrack(SongById(parts[3][1]), parts[2][1]),
     track2 |-> createTrack(SongById(parts[4][1]), parts[2][1]),
     track3 |-> hiddenTrack(parts[5], parts[2][1]),
     track4 |-> hiddenTrack(parts[6], parts[2][1]),
     key |-> parts[1][1], tempo |-> parts[2][1]]

decodePlaylistFromURL(urlParams) ==
    LET entries == split(urlParams, "|")
        parsed == [k \in 1..Len(entries) |-> parseParts(entries[k])]
        kept == SelectSeq(parsed, decodable)
    IN  [k \in 1..Len(kept) |-> decodePair(kept[k])]

\* the page decodes a url and keeps the list
DecodeUrl ==
    /\ userOps = <<>> /\ envPlaylist = <<>> /\ precomputedPlaylist = <<>>
    /\ \E url \in Urls :
         LET playlist == decodePlaylistFromURL(url)
         IN  /\ pairs' = pairs \o playlist
             /\ envPlaylist' = [k \in 1..Len(playlist) |-> Len(pairs) + k]
    /\ UNCHANGED userOps
    /\ trace' = <<>>
    /\ UNCHANGED <<failures, selVars, playerVarsButPairs, units, produced, lastReturn, decoded>>

\* the page calls generateCompleteMix() and keeps the list
GenerateCompleteMix ==
    /\ Idle /\ Spent < budget
    /\ \E r \in generateCompleteMix(History) :
         /\ SetHistory(r.h)
         /\ pairs' = pairs \o r.mix
         /\ envPlaylist' = [k \in 1..Len(r.mix) |-> Len(pairs) + k]
    /\ userOps' = Append(userOps, "generateCompleteMix")
    /\ UNCHANGED <<failures, libVars, progressIndex,
                   playerVarsButPairs, units, lastReturn, decoded>>

\* setPrecomputedPlaylist(list the page holds)
SetPrecomputedPlaylist ==
    /\ userOps = <<>> /\ envPlaylist # <<>> /\ precomputedPlaylist = <<>>
    /\ precomputedPlaylist' = envPlaylist
    /\ precomputedIndex' = 0
    /\ state' = IF Len(envPlaylist) > 0
                THEN updateState(state, [key |-> pairs[envPlaylist[1]].key,
                                         tempo |-> pairs[envPlaylist[1]].tempo,
                                         currentPair |-> Null, nextPair |-> envPlaylist[1]])
                ELSE state
    /\ UNCHANGED userOps
    /\ trace' = IF Len(envPlaylist) > 0 THEN <<Emitted("stateChange", Null)>> ELSE <<>>
    /\ UNCHANGED <<failures, selVars, pairs, playHistory, preloadedBuffers, pendingLoads,
                   scheduledPairsCount, currentSources, currentHiddenTrack, mannieFreshMode, eightZeroEightMode,
                   timers, calls, now, ctxLag, ctxSuspended,
                   units, produced, lastReturn, decoded, envPlaylist>>

\* ------------------------------------------------------------------------
\* A direct call of getNextSongSmart with arguments of the caller's choice
\* ------------------------------------------------------------------------

ArgArtists == {<<>>, <<<<"a">>>>, <<<<"a">>, <<"b">>>>}

ArgIds == {{}, {1}, {1, 2}, {1, 2, 3, 4, 5}}

CallSelector ==
    /\ Idle /\ Spent < budget
    /\ \E tempo \in Range(ALL_TEMPOS), key \in {1, 6},
          partnerSong \in {NoPartner, songs[1]},
          avoidArtists \in ArgArtists, avoidSongIds \in ArgIds :
         \E o \in getNextSongSmart(History, tempo, key, partnerSong, avoidArtists, avoidSongIds) :
             /\ SetHistory(afterSelection(History, o, "getNextSongSmart"))
             /\ lastReturn' = o.song
    /\ userOps' = Append(userOps, "getNextSongSmart")
    /\ UNCHANGED <<failures, libVars, progressIndex,
                   playerVars, units, decoded, envPlaylist>>

\* ------------------------------------------------------------------------
\* toggleMannieFreshMode() and toggle808Mode().  Each turns the other mode
\* off first, by calling the other method, when it is about to turn its own
\* mode on.  m is the part of the player they work on: the two flags, the
\* snapshot, and the stateChange events emitted so far.  The gains, filters
\* and the gating interval of the audio graph are outside the model.
\* ------------------------------------------------------------------------

\* updateState(updates) as the listeners see it: the new snapshot is the
\* payload of the stateChange event
StateChange(st) ==
    [type |-> "event", name |-> "stateChange", pair |-> st.currentPair, state |-> st,
     to |-> forEach(listeners["stateChange"]).to]

Modes == [mf |-> mannieFreshMode, e8 |-> eightZeroEightMode, st |-> state, tr |-> <<>>]

\* the test before a toggle, never true
otherIsOnNever(turningOn, other) == FALSE

\* if (!this.<own mode> && this.<other mode>)
otherIsOn(turningOn, other) == turningOn /\ other

RECURSIVE toggleMannieFreshMode(_), toggle808Mode(_)
toggleMannieFreshMode(m) ==
    LET m1 == IF otherIsOn(~m.mf, m.e8) THEN toggle808Mode(m) ELSE m
        mf == ~m1.mf
        st == updateState(m1.st,
                 [mannieFreshMode |-> mf,
                  activeHiddenTrack |-> IF mf THEN currentHiddenTrack ELSE Null])
    IN  [mf |-> mf, e8 |-> m1.e8, st |-> st, tr |-> Append(m1.tr, StateChange(st))]

toggle808Mode(m) ==
    LET m1 == IF otherIsOn(~m.e8, m.mf) THEN toggleMannieFreshMode(m) ELSE m
        e8 == ~m1.e8
        st == updateState(m1.st, [eightZeroEightMode |-> e8])
    IN  [mf |-> m1.mf, e8 |-> e8, st |-> st, tr |-> Append(m1.tr, StateChange(st))]

SetModes(m) ==
    /\ mannieFreshMode' = m.mf
    /\ eightZeroEightMode' = m.e8
    /\ state' = m.st
    /\ trace' = m.tr

ToggleMannieFreshMode ==
    /\ Idle /\ Spent < budget
    /\ userOps' = Append(userOps, "toggleMannieFreshMode")
    /\ SetModes(toggleMannieFreshMode(Modes))
    /\ UNCHANGED <<failures, selVars, pairs, playHistory, precomputedPlaylist, precomputedIndex,
                   preloadedBuffers, pendingLoads, scheduledPairsCount, currentSources,
                   currentHiddenTrack, timers, calls, now, ctxLag, ctxSuspended,
                   units, produced, lastReturn, decoded, envPlaylist>>

Toggle808Mode ==
    /\ Idle /\ Spent < budget
    /\ userOps' = Append(userOps, "toggle808Mode")
    /\ SetModes(toggle808Mode(Modes))
    /\ UNCHANGED <<failures, selVars, pairs, playHistory, precomputedPlaylist, precomputedIndex,
                   preloadedBuffers, pendingLoads, scheduledPairsCount, currentSources,
                   currentHiddenTrack, timers, calls, now, ctxLag, ctxSuspended,
                   units, produced, lastReturn, decoded, envPlaylist>>

\* ------------------------------------------------------------------------
\* on(event, listener) and the function it returns.  The listeners of an
\* event are a Set: adding one that is there changes nothing, and the
\* iteration order is the order of insertion.
\* ------------------------------------------------------------------------

SubscribedEvents == {"stateChange", "pairStart"}

setAdd(ls, listener) == IF listener \in Range(ls) THEN ls ELSE Append(ls, listener)

setDelete(ls, listener) == SelectSeq(ls, LAMBDA l : l # listener)

On(event, listener) ==
    /\ Idle /\ Spent < budget
    /\ userOps' = Append(userOps, "on")
    /\ listeners' = [listeners EXCEPT ![event] = setAdd(@, listener)]
    /\ trace' = <<>>
    /\ UNCHANGED <<songs, tempoPairCounts, progression, randomSource, budget, horizon,
                   hamiltonianPath, pathIndexesByTempo, progressIndex, playedSongIds,
                   playedPairs, recentSongs, recentArtists, playerVars,
                   units, produced, lastReturn, decoded, envPlaylist, failures>>

\* the function on() returned, called by the page that holds it
Unsubscribe(event, listener) ==
    /\ Idle /\ Spent < budget
    /\ listener \in Range(listeners[event])
    /\ userOps' = Append(userOps, "unsubscribe")
    /\ listeners' = [listeners EXCEPT ![event] = setDelete(@, listener)]
    /\ trace' = <<>>
    /\ UNCHANGED <<songs, tempoPairCounts, progression, randomSource, budget, horizon,
                   hamiltonianPath, pathIndexesByTempo, progressIndex, playedSongIds,
                   playedPairs, recentSongs, recentArtists, playerVars,
                   units, produced, lastReturn, decoded, envPlaylist, failures>>

\* ------------------------------------------------------------------------
\* updateSongs(newSongs): stop(), the new list, the selection history
\* cleared, then init().  The awaits of init() are on the random source and
\* resolve in the same turn, so the call is one step.  init() shuffles the
\* path, draws a key and a tempo, regenerates the progression from them and
\* publishes them; it leaves tempoPairCounts and the path indexes alone.
\* ------------------------------------------------------------------------

NewSongs == {<<>>, LibTiny}

Reverse(s) == [i \in 1..Len(s) |-> s[Len(s) + 1 - i]]

\* two of the orders qrng.shuffle can return
shuffleSongs(list) == {list, Reverse(list)}

\* the selection history left as it is
keepHistory == [playedSongIds |-> playedSongIds, playedPairs |-> playedPairs,
                recentArtists |-> recentArtists, recentSongs |-> recentSongs]

\* playedSongIds.clear(); playedPairs.clear(); recentArtists = []; recentSongs = []
resetHistory == [playedSongIds |-> {}, playedPairs |-> {},
                 recentArtists |-> <<>>, recentSongs |-> <<>>]

\* history: the call the step is, with its argument
Called(name, arg) == [type |-> "call", name |-> name, arg |-> arg]

UpdateSongs(newSongs) ==
    /\ Idle /\ Spent < budget
    /\ userOps' = Append(userOps, "updateSongs")
    /\ IF Len(newSongs) = 0
       THEN /\ trace' = <<Called("updateSongs", newSongs)>>
            /\ UNCHANGED <<songs, playedSongIds, playedPairs, recentArtists, recentSongs,
                           hamiltonianPath, progression, progressIndex, timers,
                           currentSources, preloadedBuffers, scheduledPairsCount, state>>
       ELSE LET randomKey == KEYS_TO_USE[1]
                randomTempo == ALL_TEMPOS[1]
                stopped_ == updateState(state, [isPlaying |-> FALSE, isPaused |-> FALSE,
                                                currentPair |-> Null, nextPair |-> Null])
                reset == resetHistory
            IN  /\ timers' = clearScheduled(timers)
                /\ currentSources' = {}
                /\ preloadedBuffers' = <<>>
                /\ scheduledPairsCount' = 0
                /\ songs' = newSongs
                /\ playedSongIds' = reset.playedSongIds
                /\ playedPairs' = reset.playedPairs
                /\ recentArtists' = reset.recentArtists
                /\ recentSongs' = reset.recentSongs
                /\ hamiltonianPath' \in shuffleSongs(newSongs)
                /\ progression' = [key |-> randomKey, tempo |-> randomTempo]
                /\ progressIndex' = 0
                /\ state' = updateState(stopped_, [key |-> randomKey, tempo |-> randomTempo,
                                                   progressIndex |-> 0])
                /\ trace' = <<Called("updateSongs", newSongs),
                              Emitted("stateChange", Null), Emitted("stateChange", Null)>>
    /\ UNCHANGED <<tempoPairCounts, randomSource, budget, horizon, pathIndexesByTempo, listeners,
                   pairs, playHistory, precomputedPlaylist, precomputedIndex, pendingLoads,
                   currentHiddenTrack, mannieFreshMode, eightZeroEightMode, calls,
                   now, ctxLag, ctxSuspended,
                   units, produced, lastReturn, decoded, envPlaylist, failures>>

\* ------------------------------------------------------------------------
\* Specifications
\* ------------------------------------------------------------------------

\* The scheduler: the nine-song library, the first candidate at every draw,
\* playback driven by the progression or by a playlist decoded from a url.
Init == InitWith(LibSmall, 1, 84, "zero", MaxUserOps)

Next ==
    \/ PlayResume
    \/ PlayPlaylist
    \/ PlayProgression
    \/ Stop
    \/ Pause
    \/ DecodeUrl
    \/ SetPrecomputedPlaylist
    \/ \E i \in 1..Len(calls) : PlayPreloadNext(i)
    \/ \E i \in 1..Len(calls) : PlayStart(i)
    \/ \E i \in 1..Len(calls) : PlayPairStart(i)
    \/ \E i \in 1..Len(calls) : SnpPreloaded(i)
    \/ \E i \in 1..Len(calls) : SnpLoaded(i)
    \/ \E i \in 1..Len(calls) : SnpHiddenProgression(i)
    \/ \E i \in 1..Len(calls) : SnpHiddenPlaylist(i)
    \/ \E k \in 1..Len(timers) : FireDeferred(k)
    \/ \E k \in 1..Len(timers) : FirePairStart(k)
    \/ \E k \in 1..Len(timers) : FireEmit(k)
    \/ \E k \in 1..Len(timers) : FireMfSwitch(k)
    \/ \E k \in 1..Len(timers) : FireRetry(k)
    \/ \E k \in 1..Len(pendingLoads) : LoadDone(k)
    \/ \E k \in 1..Len(pendingLoads) : LoadFail(k)
    \/ Tick

Spec == Init /\ [][Next]_vars

\* Navigation: the nine-song library, the first candidate at every draw,
\* playback driven by the progression, every load succeeding, and the page
\* calling play, skipForward, skipBack, setKey and setTempo.
Navigate ==
    \/ PlayProgression
    \/ SkipForward
    \/ SkipBack
    \/ SetKey
    \/ SetTempo
    \/ \E i \in 1..Len(calls) : PlayStart(i)
    \/ \E i \in 1..Len(calls) : PlayPairStart(i)
    \/ \E i \in 1..Len(calls) : AdvanceStart(i)
    \/ \E i \in 1..Len(calls) : SnpPreloaded(i)
    \/ \E i \in 1..Len(calls) : SnpLoaded(i)
    \/ \E i \in 1..Len(calls) : SnpHiddenProgression(i)
    \/ \E k \in 1..Len(timers) : FireDeferred(k)
    \/ \E k \in 1..Len(timers) : FirePairStart(k)
    \/ \E k \in 1..Len(timers) : FireEmit(k)
    \/ \E k \in 1..Len(timers) : FireMfSwitch(k)
    \/ \E k \in 1..Len(pendingLoads) : LoadDone(k)
    \/ Tick

SpecNavigate == Init /\ [][Navigate]_vars

\* The modes: the nine-song library, the first candidate at every draw,
\* playback driven by the progression, every load succeeding, and the page
\* calling play, toggleMannieFreshMode and toggle808Mode.
MaxModeOps == 3

InitModes == InitWith(LibSmall, 1, 84, "zero", MaxModeOps)

NextModes ==
    \/ PlayProgression
    \/ ToggleMannieFreshMode
    \/ Toggle808Mode
    \/ \E i \in 1..Len(calls) : PlayStart(i)
    \/ \E i \in 1..Len(calls) : PlayPairStart(i)
    \/ \E i \in 1..Len(calls) : SnpPreloaded(i)
    \/ \E i \in 1..Len(calls) : SnpLoaded(i)
    \/ \E i \in 1..Len(calls) : SnpHiddenProgression(i)
    \/ \E k \in 1..Len(timers) : FireDeferred(k)
    \/ \E k \in 1..Len(timers) : FirePairStart(k)
    \/ \E k \in 1..Len(timers) : FireEmit(k)
    \/ \E k \in 1..Len(timers) : FireMfSwitch(k)
    \/ \E k \in 1..Len(pendingLoads) : LoadDone(k)
    \/ Tick

SpecModes == InitModes /\ [][NextModes]_vars

\* The listeners: the nine-song library, the first candidate at every draw,
\* playback driven by the progression, every load succeeding, and the page
\* subscribing a listener that throws and one that returns to stateChange
\* and pairStart and unsubscribing, and then calling play once.
MaxListenerOps == 5

\* the page has finished subscribing: it has called play
subscribed == "play" \in Range(userOps)

InitListeners == InitWith(LibSmall, 1, 84, "zero", MaxListenerOps)

NextListeners ==
    \/ ~subscribed /\ PlayProgression
    \/ /\ ~subscribed
       /\ \E event \in SubscribedEvents : \E listener \in Listeners : On(event, listener)
    \/ /\ ~subscribed
       /\ \E event \in SubscribedEvents : \E listener \in Listeners :
             Unsubscribe(event, listener)
    \/ \E i \in 1..Len(calls) : PlayStart(i)
    \/ \E i \in 1..Len(calls) : PlayPairStart(i)
    \/ \E i \in 1..Len(calls) : SnpPreloaded(i)
    \/ \E i \in 1..Len(calls) : SnpLoaded(i)
    \/ \E i \in 1..Len(calls) : SnpHiddenProgression(i)
    \/ \E k \in 1..Len(timers) : FireDeferred(k)
    \/ \E k \in 1..Len(timers) : FirePairStart(k)
    \/ \E k \in 1..Len(timers) : FireEmit(k)
    \/ \E k \in 1..Len(timers) : FireMfSwitch(k)
    \/ \E k \in 1..Len(pendingLoads) : LoadDone(k)
    \/ Tick

SpecListeners == InitListeners /\ [][NextListeners]_vars

\* The library: the nine-song library replaced by another or by the empty
\* list, the first candidate at every draw, playback driven by the
\* progression, every load succeeding, and the page calling play and
\* updateSongs.
MaxLibraryOps == 3

InitLibrary == InitWith(LibSmall, 1, 84, "zero", MaxLibraryOps)

NextLibrary ==
    \/ PlayProgression
    \/ \E newSongs \in NewSongs : UpdateSongs(newSongs)
    \/ \E i \in 1..Len(calls) : PlayStart(i)
    \/ \E i \in 1..Len(calls) : PlayPairStart(i)
    \/ \E i \in 1..Len(calls) : SnpPreloaded(i)
    \/ \E i \in 1..Len(calls) : SnpLoaded(i)
    \/ \E i \in 1..Len(calls) : SnpHiddenProgression(i)
    \/ \E k \in 1..Len(timers) : FireDeferred(k)
    \/ \E k \in 1..Len(timers) : FirePairStart(k)
    \/ \E k \in 1..Len(timers) : FireEmit(k)
    \/ \E k \in 1..Len(timers) : FireMfSwitch(k)
    \/ \E k \in 1..Len(pendingLoads) : LoadDone(k)
    \/ Tick

SpecLibrary == InitLibrary /\ [][NextLibrary]_vars

\* The selector: small libraries with every random draw, and a library of
\* more than twenty songs with the first candidate at every draw.  No load
\* completes, so only the selections of play() are seen.
SelectorCases ==
    {<<LibTiny, "any">>, <<LibSolo, "any">>, <<LibFeat, "any">>, <<LibBig, "zero">>,
     <<LibLast, "zero">>}

InitSelector == \E c \in SelectorCases : InitWith(c[1], 1, 84, c[2], MaxSelectorOps)

NextSelector ==
    \/ PlayProgression
    \/ GenerateCompleteMix
    \/ CallSelector

SpecSelector == InitSelector /\ [][NextSelector]_vars

\* ------------------------------------------------------------------------
\* Properties
\* ------------------------------------------------------------------------

lookAhead(u) == units[u].via = "scheduleNextPair"

tempoOf(u) == pairs[units[u].pair].tempo

\* a scheduleNextPair call is in progress
scheduling == \E i \in 1..Len(calls) : calls[i].op = "scheduleNextPair"

\* C1: while the player keeps playing (play() is the only call made) and
\* every load succeeds, the look-ahead chain never ends: once a unit has
\* started, a scheduleNextPair call is in progress or a deferred one is set.
C1_ChainNeverEnds ==
    (state.isPlaying /\ Spent = 1 /\ failures = 0 /\ Len(units) >= 1)
      => (scheduling \/ \E k \in 1..Len(timers) : timers[k].kind = "deferred")

\* C2: a unit scheduled by the look-ahead chain starts exactly at the end
\* time of the unit before it: start(N) + introDuration(N) + mainDuration(N).
C2_StartsAtEndOfPredecessor ==
    \A u \in 1..Len(units) :
        lookAhead(u) =>
            LET before == units[units[u].from]
                track1 == pairs[before.pair].track1
            IN  units[u].startTime
                  = before.startTime + track1.introDuration + track1.mainDuration

\* a unit whose scheduling attempt was first deferred: no stop has cleared
\* the counter, and the unit before it was itself scheduled ahead
C2_DeferredUnitScheduled ==
    /\ Spent = 1
    /\ \E u \in 1..Len(units) : lookAhead(u) /\ lookAhead(units[u].from)

\* C3: for a unit of tempo T, mainStartTime - startTime is 16 * 60 / T seconds
\* and endTime - mainStartTime is 64 * 60 / T seconds, on both paths.
C3_DurationsFromTempo ==
    \A u \in 1..Len(units) :
        /\ (units[u].mainStartTime - units[u].startTime) * tempoOf(u)
              = BEAT_COUNTS.lead * 60 * TimeScale
        /\ (units[u].endTime - units[u].mainStartTime) * tempoOf(u)
              = BEAT_COUNTS.body * 60 * TimeScale

\* a unit started directly and a unit scheduled ahead, at different tempos
C3_BothPathsBothTempos ==
    \E u, v \in 1..Len(units) :
        /\ ~lookAhead(u) /\ tempoOf(u) = 84
        /\ lookAhead(v) /\ tempoOf(v) = 94

\* C4: while isPlaying, once the first unit has begun to sound, nextPair is
\* not null and every asset of it is decoded with no load of it pending.
C4_NextUnitReady ==
    (state.isPlaying /\ Len(units) >= 1 /\ currentTime >= units[1].startTime)
      => /\ state.nextPair # Null
         /\ assetsOf(pairs[state.nextPair]) \subseteq decoded
         /\ \A k \in 1..Len(pendingLoads) :
               pendingLoads[k].url \notin assetsOf(pairs[state.nextPair])

\* C5: scheduledPairsCount stays within 0..MAX_SCHEDULED_PAIRS, and no unit
\* is committed by a scheduleNextPair call that found the counter at the cap.
C5_LookAheadCap ==
    /\ scheduledPairsCount \in 0..MAX_SCHEDULED_PAIRS
    /\ \A u \in 1..Len(units) : lookAhead(u) => units[u].entryCount < MAX_SCHEDULED_PAIRS

\* a scheduleNextPair call found the counter at the cap and was deferred
C5_CallAtCapDeferred ==
    /\ scheduledPairsCount = MAX_SCHEDULED_PAIRS
    /\ \E k \in 1..Len(timers) : timers[k].kind = "deferred"
    /\ \E u \in 1..Len(units) : lookAhead(u)

\* C6: every increment of the look-ahead counter is followed by its
\* release: while the counter is above zero, the call that raised it is in
\* progress or the timer that lowers it is set.
C6_CounterReleased ==
    scheduledPairsCount > 0
      => (scheduling \/ \E k \in 1..Len(timers) : timers[k].kind = "pairStart")

\* C7: when the first source of a unit is started, every asset of every track
\* of the unit has been decoded.
C7_AllDecodedBeforeStart == \A u \in 1..Len(units) : units[u].ready

\* C8: the two primary songs of every pair the player produces are by
\* artists that do not match, and their id pair was not produced before
\* since the last reset of the history.
C8_NoIllegalPairing ==
    \A n \in 1..Len(trace) :
        trace[n].type = "pair" => (~trace[n].match /\ ~trace[n].repeat)

\* C9: getNextSongSmart returns a song of the library, whoever calls it and
\* whatever the arguments.
C9_ReturnsASong ==
    /\ lastReturn # Undefined
    /\ \A n \in 1..Len(trace) : trace[n].type # "undefined"

\* C10: the played sets are cleared only when the played-song set has
\* reached size N - 20 or more.
C10_ResetOnlyWhenFewUnplayed ==
    \A n \in 1..Len(trace) :
        trace[n].type = "reset" => trace[n].played >= Len(songs) - RESET_THRESHOLD

returned(n) == trace[n].type = "return"

\* C11 as stated: a returned song has the target tempo, and it is an
\* already-played song only when no unplayed, non-avoided song at the target
\* tempo is left.
C11_PlayedOnlyWhenPoolEmpty ==
    \A n \in 1..Len(trace) :
        returned(n) =>
            /\ trace[n].bpm = trace[n].target
            /\ trace[n].wasPlayed => trace[n].pool = "empty"

\* C11, amended: a returned song has the target tempo, and it is an
\* already-played song only when no unplayed, non-avoided song at the target
\* tempo is left or every such song is refused by the partner checks (it is
\* the partner itself, by a matching artist, or the pair was already played).
C11_PlayedOnlyWhenNoneAllowed ==
    \A n \in 1..Len(trace) :
        returned(n) =>
            /\ trace[n].bpm = trace[n].target
            /\ trace[n].wasPlayed => trace[n].pool \in {"empty", "refused"}

\* a call returned an already-played song while unplayed songs at the tempo
\* were left, and another returned one because none was left
C11_PlayedSongReturned ==
    /\ \E n \in 1..Len(trace) : returned(n) /\ trace[n].wasPlayed /\ trace[n].pool = "refused"
    /\ \E n \in 1..Len(trace) : returned(n) /\ trace[n].wasPlayed /\ trace[n].pool = "empty"

called(op) == userOps' = Append(userOps, op)

idle(st) == ~st.isPlaying /\ ~st.isPaused

stopped == lastOp = "stop"

noEvent(tr) == \A n \in 1..Len(tr) : tr[n].type # "event"

\* C13: after stop() returns and until the next play(), no timer is pending,
\* the cache of decoded assets is empty, no source is started and the
\* snapshot stays idle, and no step emits pairStart, introStart, mainStart,
\* pairEnd or stateChange.
C13_QuietAfterStop ==
    /\ [](stopped => /\ timers = <<>>
                     /\ preloadedBuffers = <<>>
                     /\ currentSources = {}
                     /\ idle(state))
    /\ [][(stopped /\ UNCHANGED userOps) => noEvent(trace')]_vars

\* a timer of the kind is set for the pair
armed(kinds, pair) == \E k \in 1..Len(timers) : timers[k].kind \in kinds /\ timers[k].pair = pair

\* the unit was started by playPair and has not reached its end
sounding(u) == ~lookAhead(u) /\ currentTime < units[u].endTime

\* the unit is scheduled ahead, the call that scheduled it has set its
\* timers, and it has not reached its start
committed(u) ==
    /\ lookAhead(u) /\ currentTime < units[u].startTime
    /\ units[u].tracks = {1, 2, 3, 4}
    /\ \A i \in 1..Len(calls) : calls[i].unit # u

\* the notifications that are still to come are armed
notified(u) ==
    /\ sounding(u) => armed({"pairEnd"}, units[u].pair)
    /\ (sounding(u) /\ currentTime < units[u].mainStartTime) => armed({"mainStart"}, units[u].pair)
    /\ committed(u) => armed({"pairStart"}, units[u].pair)

\* C14: after pause() and the play() that resumes, playback picks up where it
\* was: the player is playing, the mainStart and pairEnd notifications of the
\* current unit that are still to come are armed, and so is the timer that
\* makes the pre-scheduled next unit current when it starts.
C14_ResumeWhereItLeftOff ==
    lastOp = "resume" =>
        /\ state.isPlaying
        /\ \A u \in 1..Len(units) : notified(u)

\* the backoff timer of the load is running
backingOff(url) == \E k \in 1..Len(timers) : timers[k].kind = "retry" /\ timers[k].url = url

\* C20: a load whose fetch or decode failed is attempted again with a fresh
\* fetch after its backoff: every load in flight is fetching, or waits for a
\* backoff timer that is running.
C20_RetriedAfterBackoff ==
    \A j \in 1..Len(pendingLoads) :
        \/ pendingLoads[j].stage = "fetch"
        \/ pendingLoads[j].stage = "backoff" /\ backingOff(pendingLoads[j].url)

\* unit v had been scheduled to follow unit u when unit n was asked for
followed(v, u, n) == lookAhead(v) /\ units[v].from = u /\ v <= units[n].seen

\* C15: the unit skipForward() starts is the unit that had been scheduled
\* to follow the interrupted unit, when one had been scheduled: no unit of
\* the sequence is skipped.
C15_PromotesScheduledUnit ==
    \A n \in 1..Len(units) :
        (units[n].by = "skipForward" /\ units[n].over # 0) =>
            \A v \in 1..Len(units) :
                followed(v, units[n].over, n) => units[n].pair = units[v].pair

\* the unit that was current immediately before unit u (0 if none)
before(u) == IF u = 0 THEN 0 ELSE IF lookAhead(u) THEN units[u].from ELSE units[u].over

\* C16: the unit skipBack() restarts while a unit is audible is the unit
\* that was current immediately before the audible one; when there is no
\* such unit skipBack() starts nothing.
C16_RestartsUnitBefore ==
    \A n \in 1..Len(units) :
        (units[n].by = "skipBack" /\ units[n].over # 0) =>
            /\ before(units[n].over) # 0
            /\ units[n].pair = units[before(units[n].over)].pair

\* the sources of the pair were halted: it has a unit and no source
halted(pair) ==
    /\ \E u \in 1..Len(units) : units[u].pair = pair
    /\ \A src \in currentSources : src.pair # pair

\* C17: no timer fires with an effect for a unit whose audio was halted: no
\* step emits pairStart, mainStart or pairEnd on behalf of a pair whose
\* sources skipForward or skipBack stopped.
C17_NoStaleTimer ==
    \A n \in 1..Len(trace) :
        (trace[n].type = "event" /\ trace[n].name \in {"pairStart", "mainStart", "pairEnd"})
            => ~halted(trace[n].pair)

\* C18: setTempo(t) while playing leaves the timers as they are, and the
\* tempo of the snapshot keeps its value.
C18_TempoKeptUntilNextUnit ==
    [][(called("setTempo") /\ state.isPlaying) =>
          (timers' = timers /\ state'.tempo = state.tempo)]_vars

\* C19: setKey(k) or setTempo(t) while playing leaves currentPair and the
\* sources as they are, restarts the progression from the new (key, tempo)
\* with the cursor at its first entry, and tags the new next pair with
\* exactly that key and tempo.
C19_NextUnitAtNewKeyAndTempo ==
    [][((called("setKey") \/ called("setTempo")) /\ state.isPlaying) =>
          /\ state'.currentPair = state.currentPair
          /\ currentSources' = currentSources
          /\ progressIndex' = 0
          /\ progression' = [key |-> state'.key, tempo |-> state'.tempo]
          /\ state'.nextPair # Null
          /\ pairs'[state'.nextPair].key = progression'.key
          /\ pairs'[state'.nextPair].tempo = progression'.tempo]_vars

\* a load of the url is going on: a fetch is in flight, or the backoff
\* delay before the next attempt is running
live(url) ==
    \E j \in 1..Len(pendingLoads) :
        /\ pendingLoads[j].url = url
        /\ \/ pendingLoads[j].stage = "fetch"
           \/ /\ pendingLoads[j].stage = "backoff"
              /\ \E k \in 1..Len(timers) : timers[k].kind = "retry" /\ timers[k].url = url

\* C21: a loadAudioBuffer call does not wait for ever: every url a suspended
\* play, playPair or scheduleNextPair call still awaits has an attempt in
\* flight or a backoff running, so the call resumes or ends with 'error'
\* once the attempts are over.
C21_AwaitedLoadSettles ==
    \A i \in 1..Len(calls) : \A url \in calls[i].need : live(url)

\* no url has two loads in pendingLoads
oneLoadPerUrl ==
    \A j, k \in 1..Len(pendingLoads) :
        pendingLoads[j].url = pendingLoads[k].url => j = k

\* every call that awaits a url awaits the load pendingLoads holds for it
sharedLoad ==
    \A i \in 1..Len(calls) : \A url \in calls[i].need : isPending(pendingLoads, url)

\* the entry of a url leaves pendingLoads in the step that completes its load
releasedWhenDone ==
    \A url \in Range(preloadedBuffers') \ Range(preloadedBuffers) :
        ~isPending(pendingLoads', url)

completes(url) ==
    /\ \E j \in 1..Len(pendingLoads) :
          pendingLoads[j].url = url /\ pendingLoads[j].stage = "fetch"
    /\ ~isPending(pendingLoads', url)

\* what a completed load of a url not in the cache does to the cache: the
\* url goes in last, and the entry that went in first goes out when that
\* makes thirteen
afterInsertion(url) ==
    IF Len(preloadedBuffers) = CACHE_LIMIT
    THEN Append(Tail(preloadedBuffers), url)
    ELSE Append(preloadedBuffers, url)

\* C23: the cache never holds more than 12 buffers; a completed load puts
\* its url in last and, when the cache is full, drops the entry that was put
\* in first; nothing else reorders the cache (a hit does not move an entry),
\* and only stop() empties it.
C23_OldestInsertedEvicted ==
    /\ [](Len(preloadedBuffers) <= CACHE_LIMIT)
    /\ [][\A j \in 1..Len(pendingLoads) :
             (completes(pendingLoads[j].url) /\ ~isCached(pendingLoads[j].url))
                => preloadedBuffers' = afterInsertion(pendingLoads[j].url)]_vars
    /\ [][(preloadedBuffers' # preloadedBuffers)
             => \/ \E j \in 1..Len(pendingLoads) : completes(pendingLoads[j].url)
                \/ (lastOp' = "stop" /\ preloadedBuffers' = <<>>)]_vars

\* the cache is full and a url that was loaded has been dropped from it,
\* stop() never having been called
C23_FullCacheEvicted ==
    /\ Len(preloadedBuffers) = CACHE_LIMIT
    /\ "stop" \notin Range(userOps)
    /\ \E url \in decoded : ~isCached(url)

\* the stateChange events of the step, each with the snapshot it carries
snapshots(tr) ==
    {tr[n].state : n \in {k \in 1..Len(tr) : tr[k].type = "event" /\ "state" \in DOMAIN tr[k]}}

bothModes(st) == st.mannieFreshMode /\ st.eightZeroEightMode

\* C24: the two modes are never both on, neither in the flags nor in the
\* snapshot nor in any snapshot a toggle emits on the way, and a toggle that
\* turns one mode on while the other is on leaves the other off.
C24_ModesExclusive ==
    /\ [](~(mannieFreshMode /\ eightZeroEightMode) /\ ~bothModes(state))
    /\ [](\A st \in snapshots(trace) : ~bothModes(st))
    /\ [][(called("toggle808Mode") /\ mannieFreshMode /\ ~eightZeroEightMode)
             => (eightZeroEightMode' /\ ~mannieFreshMode')]_vars
    /\ [][(called("toggleMannieFreshMode") /\ eightZeroEightMode /\ ~mannieFreshMode)
             => (mannieFreshMode' /\ ~eightZeroEightMode')]_vars

\* 808 mode has been turned on over alternate-track mode and then
\* alternate-track mode over 808 mode, during playback
C24_EachTurnedOffTheOther ==
    /\ state.isPlaying
    /\ Len(userOps) >= 3
    /\ userOps[Len(userOps) - 1] = "toggle808Mode"
    /\ userOps[Len(userOps)] = "toggleMannieFreshMode"
    /\ Len(trace) = 2
    /\ mannieFreshMode /\ ~eightZeroEightMode

\* the switch timer that is set
switchTimers(tms) == {k \in 1..Len(tms) : tms[k].kind = "mfSwitch"}

\* the step is a hidden-track switch: the active hidden track alternates and
\* the next switch is set, k being the timer that fired and n the one set
switches(k, n) ==
    /\ k \in switchTimers(timers) /\ Due(k)
    /\ n \in switchTimers(timers')
    /\ userOps' = userOps
    /\ currentHiddenTrack' # currentHiddenTrack
    /\ trace' = <<Emitted("stateChange", timers[k].pair)>>

\* C25 as stated: the delay to the next switch is four bars at the live
\* tempo of the snapshot, so after setTempo(t) the very next switch is four
\* bars at t away.
C25_SwitchAtLiveTempo ==
    [][\A k \in 1..Len(timers) : \A n \in 1..Len(timers') :
          switches(k, n)
             => timers'[n].t = timers[k].t + calculate4BarDuration(state.tempo)]_vars

\* C25 amended: the delay to the next switch is four bars at the tempo of
\* the pair that is current at the switch; setTempo does not change it
\* while that pair plays.
C25_SwitchAtCurrentPairTempo ==
    [][\A k \in 1..Len(timers) : \A n \in 1..Len(timers') :
          switches(k, n)
             => timers'[n].t = timers[k].t
                                 + calculate4BarDuration(pairs[state.currentPair].tempo)]_vars

\* a switch has happened after setTempo changed the snapshot's tempo, the
\* unit that started at the old tempo still being current
C25_SwitchedAfterSetTempo ==
    /\ state.isPlaying /\ state.currentPair # Null
    /\ "setTempo" \in Range(userOps)
    /\ \E n \in switchTimers(timers) :
          /\ timers[n].from = state.tempo
          /\ timers[n].from # pairs[state.currentPair].tempo

\* the step emitted a stateChange event
published(tr) ==
    \E n \in 1..Len(tr) : tr[n].type = "event" /\ tr[n].name = "stateChange"

\* C26: this.state is the object the last stateChange handed to the
\* subscribers, so the snapshot changes only in a step that builds a new
\* object and publishes it: every step that changes the snapshot emits
\* stateChange, and none changes a field of the emitted object in place.
C26_ChangesArePublished ==
    [][state' # state => published(trace')]_vars

\* the events of the step
events(tr) == {n \in 1..Len(tr) : tr[n].type = "event"}

\* a step that removes a listener of an event removes that one alone: the
\* other listeners of the event keep their order, and the listeners of the
\* other events are as they were
removesOnlyThat ==
    \A event \in PlayerEvents : \A listener \in Range(listeners[event]) :
        listener \notin Range(listeners'[event])
          => /\ listeners'[event] = SelectSeq(listeners[event], LAMBDA l : l # listener)
             /\ \A other \in PlayerEvents \ {event} : listeners'[other] = listeners[other]

\* every event of the step went to every listener of its name
deliveredToAll ==
    \A n \in events(trace) : trace[n].to = listeners[trace[n].name]

\* the callback that made a pair current went on after its emits: introStart
\* follows pairStart, and the switches of a pair with hidden tracks are set
carriedOn ==
    \A n \in events(trace) :
        trace[n].name = "pairStart"
          => /\ \E m \in events(trace) : m > n /\ trace[m].name = "introStart"
             /\ (pairs[trace[n].pair].track3 # NoTrack /\ pairs[trace[n].pair].track4 # NoTrack)
                   => \E k \in 1..Len(timers) :
                         timers[k].kind = "mfSwitch" /\ timers[k].pair = trace[n].pair

\* C27: the function on() returned removes its listener alone; an event goes
\* to every listener of its name, a listener that throws before them
\* notwithstanding; and the operation that emitted goes on after a listener
\* threw.
C27_ListenersIndependent ==
    /\ [][removesOnlyThat]_vars
    /\ [](deliveredToAll /\ carriedOn)

\* a listener was unsubscribed, and the timer callback of the second unit
\* emitted pairStart to the listener that throws and then to the other
C27_DeliveredPastThrower ==
    /\ "unsubscribe" \in Range(userOps)
    /\ Len(units) >= 2
    /\ \E n \in events(trace) :
          /\ trace[n].name = "pairStart"
          /\ trace[n].to = <<"thrower", "keeper">>
          /\ \E k \in 1..Len(timers) :
                timers[k].kind = "mfSwitch" /\ timers[k].pair = trace[n].pair

\* the step was updateSongs(newSongs)
updatedSongs(newSongs) == trace # <<>> /\ trace[1] = Called("updateSongs", newSongs)

Returned(value) == [type |-> "return", value |-> value]

playlistOf(indexes) == [k \in 1..Len(indexes) |-> pairs[indexes[k]]]

\* the pairs of the playlists that are encoded: both hidden tracks, none,
\* one of the two, and a pair made from a library that had a song 12
PlaylistPairs ==
    {withHiddenTracks(createTrackPair(LibSmall[1], LibSmall[2], 1, 84),
                      LibSmall[3], LibSmall[4]),
     createTrackPair(LibSmall[5], LibSmall[6], 10, 94),
     [createTrackPair(LibSmall[3], LibSmall[4], 2, 84)
        EXCEPT !.track3 = createTrack(LibSmall[1], 84)],
     [createTrackPair(LibSmall[9], LibSmall[7], 7, 102)
        EXCEPT !.track4 = createTrack(LibSmall[8], 102)],
     createTrackPair(LibSmall[1], Song(12, <<"l">>, 1, 84), 1, 84)}

Playlists == {<<>>} \cup {<<p>> : p \in PlaylistPairs}
               \cup {<<p, q>> : p, q \in PlaylistPairs}

\* the entries of the urls that are decoded: well-formed ones, wrong
\* numbers of fields, fields that are no numbers, fields that start with a
\* number, and ids of no song
UrlEntries ==
    {"1,84,1,2,3,4", "10,94,5,6,0,0", "2,102,9,7,0,8",
     "", "1,84,1,2,3", "1,84,1,2,3,4,5",
     "x,84,1,2,3,4", "1,,1,2,3,4", "1,84,one,2,3,4", "1,84,1,2,3,four",
     "1,84bpm,1,2,3,4",
     "1,84,12,2,3,4", "1,84,1,12,0,0", "1,84,1,2,12,4"}

UrlParams == UrlEntries \cup {a \o "|" \o b : a, b \in UrlEntries}

\* the url the page decodes: any url when it opens, the url just encoded
\* when it is reloaded
sharedUrls ==
    IF lastOp = "encodePlaylistToURL" THEN {trace[2].value}
    ELSE IF userOps = <<>> THEN UrlParams ELSE {}

EncodePlaylistToURL(playlist) ==
    /\ Spent < budget /\ lastOp # "encodePlaylistToURL"
    /\ userOps' = Append(userOps, "encodePlaylistToURL")
    /\ trace' = <<Called("encodePlaylistToURL", playlist),
                  Returned(encodePlaylistToURL(playlist))>>
    /\ UNCHANGED <<pairs, envPlaylist>>
    /\ UNCHANGED <<failures, selVars, playerVarsButPairs, units, produced, lastReturn, decoded>>

DecodePlaylistFromURL(urlParams) ==
    /\ Spent < budget
    /\ userOps' = Append(userOps, "decodePlaylistFromURL")
    /\ LET playlist == decodePlaylistFromURL(urlParams)
       IN  /\ pairs' = pairs \o playlist
           /\ envPlaylist' = [k \in 1..Len(playlist) |-> Len(pairs) + k]
    /\ trace' = <<Called("decodePlaylistFromURL", urlParams)>>
    /\ UNCHANGED <<failures, selVars, playerVarsButPairs, units, produced, lastReturn, decoded>>

\* The playlist urls on their own: the nine-song library, the page decoding
\* a url, encoding a playlist, and decoding the url it just encoded.
MaxUrlOps == 3

InitPlaylistUrl == InitWith(LibSmall, 1, 84, "zero", MaxUrlOps)

NextPlaylistUrl ==
    \/ \E playlist \in Playlists \cup {playlistOf(envPlaylist)} : EncodePlaylistToURL(playlist)
    \/ \E urlParams \in sharedUrls : DecodePlaylistFromURL(urlParams)

SpecPlaylistUrl == InitPlaylistUrl /\ [][NextPlaylistUrl]_vars


\* ------------------------------------------------------------------------
\* C29, C30: playlist urls
\* ------------------------------------------------------------------------

RECURSIVE numeric(_)
numeric(field) ==
    /\ field # ""
    /\ isDigit(Head(field))
    /\ Tail(field) = "" \/ numeric(Tail(field))

inLibrary(field) == \E k \in 1..Len(songs) : toString(songs[k].id) = field

\* an entry the decoder has to keep: six numeric fields, and every song id
\* it references (a hidden id of 0 references none) is in the library
parseable(entry) ==
    LET fields == split(entry, ",")
    IN  /\ Len(fields) = 6
        /\ \A k \in 1..6 : numeric(fields[k])
        /\ inLibrary(fields[3]) /\ inLibrary(fields[4])
        /\ fields[5] = "0" \/ inLibrary(fields[5])
        /\ fields[6] = "0" \/ inLibrary(fields[6])

decodedUrl == trace # <<>> /\ trace[1].type = "call" /\ trace[1].name = "decodePlaylistFromURL"

\* C29: decodePlaylistFromURL drops every entry that cannot be parsed (wrong
\* number of fields, a non-numeric key, tempo or id) or that references a
\* song id not in the library, and decodes every other entry, in order: the
\* list it returns has one pair per remaining entry, and the pair is the
\* one the entry writes down.
C29_OnlyParseableEntriesKept ==
    decodedUrl =>
        LET kept == SelectSeq(split(trace[1].arg, "|"), parseable)
        IN  /\ Len(envPlaylist) = Len(kept)
            /\ \A k \in 1..Len(kept) : encodePair(pairs[envPlaylist[k]]) = kept[k]

roundTrip ==
    /\ lastOp = "encodePlaylistToURL"
    /\ called("decodePlaylistFromURL")
    /\ trace'[1].arg = trace[2].value

allInLibrary(playlist) ==
    \A k \in 1..Len(playlist) :
        \A track \in {playlist[k].track1, playlist[k].track2,
                      playlist[k].track3, playlist[k].track4} :
            track = NoTrack \/ hasSong(track.song)

samePair(p, q) ==
    /\ p.key = q.key /\ p.tempo = q.tempo
    /\ p.track1.song = q.track1.song /\ p.track2.song = q.track2.song
    /\ p.track3.song = q.track3.song /\ p.track4.song = q.track4.song
    /\ (p.track3 = NoTrack) = (q.track3 = NoTrack)
    /\ (p.track4 = NoTrack) = (q.track4 = NoTrack)

\* C30: decoding the url that encodePlaylistToURL wrote for a playlist whose
\* song ids are all in the library gives a playlist of the same length and
\* order with, pair by pair, the same key, tempo and song ids of track1 to
\* track4, a hidden track that was absent being absent again.
C30_DecodeOfEncodeIsSame ==
    [][(roundTrip /\ allInLibrary(trace[1].arg)) =>
         /\ Len(envPlaylist') = Len(trace[1].arg)
         /\ \A k \in 1..Len(trace[1].arg) :
                samePair(trace[1].arg[k], pairs'[envPlaylist'[k]])]_vars

\* a two-pair playlist with a present and an absent hidden track came back
\* from the url it was encoded to
C30_RoundTripWithHiddenAndAbsent ==
    /\ Len(userOps) >= 2
    /\ userOps[Len(userOps) - 1] = "encodePlaylistToURL"
    /\ lastOp = "decodePlaylistFromURL"
    /\ Len(envPlaylist) = 2
    /\ pairs[envPlaylist[1]].track3 # NoTrack /\ pairs[envPlaylist[1]].track4 # NoTrack
    /\ pairs[envPlaylist[2]].track3 = NoTrack /\ pairs[envPlaylist[2]].track4 # NoTrack
    /\ pairs[envPlaylist[2]].tempo = 102


\* ------------------------------------------------------------------------
\* The progression on its own
\* ------------------------------------------------------------------------

\* The progression: the nine-song and the four-song library constructed
\* with every starting key and tempo, the first candidate at every draw,
\* the page calling play, setKey and setTempo with every key and tempo
\* before the clock advances.
MaxProgressionOps == 2

ProgressionCases ==
    {<<lib, key, tempo>> : lib \in {LibSmall, LibTiny}, key \in Range(KEYS_TO_USE),
                           tempo \in Range(ALL_TEMPOS)}

InitProgression ==
    \E c \in ProgressionCases : InitWith(c[1], c[2], c[3], "zero", MaxProgressionOps)

NextProgression ==
    \/ PlayProgression
    \/ \E key \in Range(KEYS_TO_USE) : SetKeyTo(key)
    \/ \E tempo \in Range(ALL_TEMPOS) : SetTempoTo(tempo)
    \/ \E i \in 1..Len(calls) : PlayStart(i)
    \/ \E i \in 1..Len(calls) : PlayPairStart(i)
    \/ \E i \in 1..Len(calls) : SnpPreloaded(i)
    \/ \E i \in 1..Len(calls) : SnpLoaded(i)
    \/ \E i \in 1..Len(calls) : SnpHiddenProgression(i)
    \/ \E k \in 1..Len(pendingLoads) : LoadDone(k)

SpecProgression == InitProgression /\ [][NextProgression]_vars


\* ------------------------------------------------------------------------
\* C31, C32, C35: the progression
\* ------------------------------------------------------------------------

\* the tempo after tempo in the fixed cyclic order
nextInOrder(tempo) == ALL_TEMPOS[(IndexOf(ALL_TEMPOS, tempo) % Len(ALL_TEMPOS)) + 1]

nextKey(key) == (key % 10) + 1

\* a list that starts at (startKey, startTempo), changes tempo only to the
\* next tempo of the order, starts every block at startKey and steps to the
\* next key inside a block, so that the j-th entry (from 0) of a block has
\* the key ((startKey - 1 + j) mod 10) + 1
walksFrom(progressionList, startKey, startTempo) ==
    \E list \in {progressionList \o <<>>} :
        /\ Len(list) > 0
        /\ list[1] = [key |-> startKey, tempo |-> startTempo]
        /\ \A n \in 2..Len(list) :
              IF list[n].tempo = list[n - 1].tempo
              THEN list[n].key = nextKey(list[n - 1].key)
              ELSE /\ list[n].tempo = nextInOrder(list[n - 1].tempo)
                   /\ list[n].key = startKey

\* C31: the list generateProgressionFromPoint returns starts with
\* (startKey, startTempo), has its tempos in blocks that follow the cyclic
\* tempo order from startTempo, and the j-th entry of every block has key
\* ((startKey - 1 + j) mod 10) + 1; the list the constructor leaves is such
\* a list from the initial key and tempo, and after every setKey(key) and
\* setTempo(tempo), idle or playing, the list is such a list from the new
\* key with the tempo of the snapshot, or from the new tempo with its key.
C31_ProgressionWalksFromStart ==
    /\ walksFrom(Progression, state.key, state.tempo)
    /\ [][/\ called("setKey") => walksFrom(Progression', state'.key, state.tempo)
          /\ called("setTempo") => walksFrom(Progression', state.key, state'.tempo)]_vars

\* setKey(10) while the first unit plays at the second tempo of the order:
\* the list restarts at key 10 and that tempo, and goes on with key 1
C31_SetKeyWhilePlaying ==
    /\ state.isPlaying /\ state.currentPair # Null
    /\ lastOp = "setKey" /\ state.key = 10 /\ state.tempo = 94
    /\ Progression[1] = [key |-> 10, tempo |-> 94]
    /\ Progression[2] = [key |-> 1, tempo |-> 94]


\* the number of entries from position first on that have the tempo of the
\* entry at first
RECURSIVE runLength(_, _, _)
runLength(list, first, n) ==
    IF n > Len(list) \/ list[n].tempo # list[first].tempo THEN n - first
    ELSE runLength(list, first, n + 1)

\* the positions at which a block of the list starts
blockStarts(list) == {n \in 1..Len(list) : n = 1 \/ list[n].tempo # list[n - 1].tempo}

songsAt(tempo) == Cardinality({k \in 1..Len(songs) : songs[k].bpm = tempo})

fewestSongs == SetMin({songsAt(tempo) : tempo \in Range(ALL_TEMPOS)})

\* C32: in the progression the number of consecutive entries for a tempo is
\* round(10 * songs at that tempo / songs at the tempo with the fewest
\* songs), the songs being those of the library: the tempo with the fewest
\* songs has 10 entries in a row and no tempo has fewer.
C32_BlockLengthsFollowLibrary ==
    (Len(songs) > 0 /\ fewestSongs > 0) =>
        \E list \in {Progression} :
            \A first \in blockStarts(list) :
                /\ 2 * runLength(list, first, first) * fewestSongs
                     <= 20 * songsAt(list[first].tempo) + fewestSongs
                /\ 2 * runLength(list, first, first) * fewestSongs
                     > 20 * songsAt(list[first].tempo) - fewestSongs
                /\ runLength(list, first, first) >= 10
                /\ songsAt(list[first].tempo) = fewestSongs
                     => runLength(list, first, first) = 10


\* ------------------------------------------------------------------------
\* Long playback
\* ------------------------------------------------------------------------

\* Long playback: the nine-song library, the first candidate at every draw,
\* every load succeeding, the page calling play once and the clock followed
\* for MaxLongBeats beats, about eleven units.
MaxLongBeats == 900

InitLong == InitAt(LibSmall, 1, 84, "zero", 1, MaxLongBeats)

NextLong ==
    \/ PlayProgression
    \/ \E i \in 1..Len(calls) : PlayStart(i)
    \/ \E i \in 1..Len(calls) : PlayPairStart(i)
    \/ \E i \in 1..Len(calls) : SnpPreloaded(i)
    \/ \E i \in 1..Len(calls) : SnpLoaded(i)
    \/ \E i \in 1..Len(calls) : SnpHiddenProgression(i)
    \/ \E k \in 1..Len(timers) : FireDeferred(k)
    \/ \E k \in 1..Len(timers) : FirePairStart(k)
    \/ \E k \in 1..Len(timers) : FireEmit(k)
    \/ \E k \in 1..Len(timers) : FireMfSwitch(k)
    \/ \E k \in 1..Len(pendingLoads) : LoadDone(k)
    \/ Tick

SpecLong == InitLong /\ [][NextLong]_vars

\* ------------------------------------------------------------------------
\* C34: the play history
\* ------------------------------------------------------------------------

\* C34: the play history never holds more than 10 units, whether a unit
\* was started directly or scheduled ahead.
C34_HistoryAtMostTen == Len(playHistory) <= 10


\* ------------------------------------------------------------------------
\* C33: the switches of the hidden tracks
\* ------------------------------------------------------------------------

\* the current unit has both hidden tracks and its sources were started
currentUnitWithHiddenTracks ==
    /\ state.currentPair # Null
    /\ pairs[state.currentPair].track3 # NoTrack
    /\ pairs[state.currentPair].track4 # NoTrack
    /\ \E n \in 1..Len(units) : units[n].pair = state.currentPair

\* the page called play() once, so that one call starts units
playedOnce == Len(SelectSeq(userOps, LAMBDA o : o = "play")) = 1

\* C33: in a unit with both hidden tracks, whenever alternate-track mode is
\* on and the player is playing, the audible hidden track goes on toggling
\* every 16 beats until the unit is superseded, after any sequence of mode
\* toggles within the unit and with play() called once: the next switch of
\* the unit is always pending.
C33_NextSwitchPending ==
    (mannieFreshMode /\ state.isPlaying /\ currentUnitWithHiddenTracks /\ playedOnce) =>
        \E k \in 1..Len(timers) :
            timers[k].kind = "mfSwitch" /\ timers[k].pair = state.currentPair


\* ------------------------------------------------------------------------
\* The constructor, loop by loop
\* ------------------------------------------------------------------------

\* three songs, none of them at 102 BPM
LibNo102 == SubSeq(LibTiny, 1, 3)

\* one song
LibOne == SubSeq(LibTiny, 1, 1)

\* the array is followed up to this many entries, more than the progression
\* of LibTiny has
MaxPushed == 450

\* the constructor inside generateProgressionFromPoint: the three loop
\* indexes and the length of the array
Generating(cycle, tempoOffset, pairIndex, pushed) ==
    [op |-> "constructor", pc |-> "generate", need |-> {}, cycle |-> cycle,
     tempoOffset |-> tempoOffset, pairIndex |-> pairIndex, pushed |-> pushed]

\* pairIndex < pairCount
belowCount(pairIndex, pairCount) == pairCount = Infinity \/ pairIndex < pairCount

\* this.tempoPairCounts.get(tempo) || 10 of the block the loops are in
pairCountAt(c) == pairCountOf(tempoAtOffset(progression.tempo, c.tempoOffset))

inBlock(c) ==
    /\ c.op = "constructor"
    /\ c.cycle < PROGRESSION_CYCLES /\ c.tempoOffset < Len(ALL_TEMPOS)

constructorVars ==
    <<failures, selVars, state, pairs, playHistory, precomputedPlaylist, precomputedIndex,
      preloadedBuffers, pendingLoads, scheduledPairsCount, currentSources,
      currentHiddenTrack, mannieFreshMode, eightZeroEightMode, timers, now, ctxLag,
      ctxSuspended, units, produced, trace, lastReturn, decoded, envPlaylist, userOps>>

\* progression.push({ key, tempo }); pairIndex++
PushEntry(i) ==
    /\ inBlock(calls[i]) /\ belowCount(calls[i].pairIndex, pairCountAt(calls[i]))
    /\ calls[i].pushed < MaxPushed
    /\ calls' = [calls EXCEPT ![i].pairIndex = @ + 1, ![i].pushed = @ + 1]
    /\ UNCHANGED constructorVars

\* the innermost loop ends; tempoOffset++
NextBlock(i) ==
    /\ inBlock(calls[i]) /\ ~belowCount(calls[i].pairIndex, pairCountAt(calls[i]))
    /\ calls' = [calls EXCEPT ![i].tempoOffset = @ + 1, ![i].pairIndex = 0]
    /\ UNCHANGED constructorVars

\* the loop over the tempos ends; cycle++
NextCycle(i) ==
    /\ calls[i].op = "constructor" /\ calls[i].cycle < PROGRESSION_CYCLES
    /\ calls[i].tempoOffset >= Len(ALL_TEMPOS)
    /\ calls' = [calls EXCEPT ![i].cycle = @ + 1, ![i].tempoOffset = 0]
    /\ UNCHANGED constructorVars

\* return progression, and the rest of the constructor
ConstructorReturns(i) ==
    /\ calls[i].op = "constructor" /\ calls[i].cycle >= PROGRESSION_CYCLES
    /\ calls[i].pushed = Len(Progression)
    /\ calls' = RemoveAt(calls, i)
    /\ UNCHANGED constructorVars

\* The constructor: libraries with and without a song at every tempo, the
\* weights computed, the loops of generateProgressionFromPoint one step at
\* a time.
ConstructorCases == {LibTiny, LibNo102, LibOne}

InitConstructor ==
    \E lib \in ConstructorCases :
        InitRunning(lib, 1, 84, "zero", 0, MaxBeats, <<Generating(0, 0, 0, 0)>>)

NextConstructor ==
    \/ \E i \in 1..Len(calls) : PushEntry(i)
    \/ \E i \in 1..Len(calls) : NextBlock(i)
    \/ \E i \in 1..Len(calls) : NextCycle(i)
    \/ \E i \in 1..Len(calls) : ConstructorReturns(i)

SpecConstructor == InitConstructor /\ [][NextConstructor]_vars

\* ------------------------------------------------------------------------
\* C35: the constructor returns
\* ------------------------------------------------------------------------

\* C35: for any non-empty library, also one with no song at one of the
\* tempos, the constructor ends with a finite progression: the block its
\* loops are in has an end, the number of entries to push being a number.
C35_EveryBlockEnds ==
    \A i \in 1..Len(calls) : inBlock(calls[i]) => pairCountAt(calls[i]) # Infinity


\* ------------------------------------------------------------------------
\* C36: play() called again
\* ------------------------------------------------------------------------

\* the units that playPair started; the page calls no skip, so each of them
\* comes from a play()
startedByPlay == {u \in 1..Len(units) : units[u].via = "playPair"}

\* C36: play() called while a unit plays, or while an earlier play() is
\* still selecting or loading, starts no second unit: playPair starts at
\* most one unit as long as the page only calls play and the mode toggles.
C36_PlayStartsOneUnit == Cardinality(startedByPlay) <= 1


\* ------------------------------------------------------------------------
\* Skips: the nine-song library, the first candidate at every draw,
\* playback driven by the progression, every load succeeding, and the page
\* calling play, skipForward and setKey.
\* ------------------------------------------------------------------------

MaxSkipOps == 3

InitSkips == InitWith(LibSmall, 1, 84, "zero", MaxSkipOps)

NextSkips ==
    \/ PlayProgression
    \/ SkipForward
    \/ SetKey
    \/ \E i \in 1..Len(calls) : PlayStart(i)
    \/ \E i \in 1..Len(calls) : PlayPairStart(i)
    \/ \E i \in 1..Len(calls) : AdvanceStart(i)
    \/ \E i \in 1..Len(calls) : SnpPreloaded(i)
    \/ \E i \in 1..Len(calls) : SnpLoaded(i)
    \/ \E i \in 1..Len(calls) : SnpHiddenProgression(i)
    \/ \E k \in 1..Len(timers) : FireDeferred(k)
    \/ \E k \in 1..Len(timers) : FirePairStart(k)
    \/ \E k \in 1..Len(timers) : FireEmit(k)
    \/ \E k \in 1..Len(timers) : FireMfSwitch(k)
    \/ \E k \in 1..Len(pendingLoads) : LoadDone(k)
    \/ Tick

SpecSkips == InitSkips /\ [][NextSkips]_vars

\* ------------------------------------------------------------------------
\* C37: the units handed to playPair
\* ------------------------------------------------------------------------

\* C37: every unit handed to playPair has track3 and track4, so that with
\* every load succeeding no step emits 'error'.
C37_NoErrorEvent ==
    \A n \in events(trace) : trace[n].name # "error"


\* ------------------------------------------------------------------------
\* Playlist playback: a library of ten songs, the first candidate at every
\* draw, every load succeeding; the page decodes a url, sets the list and
\* calls play once.
\* ------------------------------------------------------------------------

\* eight songs at 84 BPM: a generated mix has more than one unit
LibEight == <<Song(1, <<"a">>, 1, 84), Song(2, <<"b">>, 2, 84),
              Song(3, <<"c">>, 3, 84), Song(4, <<"d">>, 4, 84),
              Song(5, <<"e">>, 5, 84), Song(6, <<"f">>, 6, 84),
              Song(7, <<"g">>, 7, 84), Song(8, <<"h">>, 8, 84),
              Song(9, <<"i">>, 9, 94), Song(10, <<"j">>, 10, 102)>>

InitPlaylist == InitWith(LibEight, 1, 84, "zero", 1)

NextPlaylist ==
    \/ DecodeUrl
    \/ SetPrecomputedPlaylist
    \/ PlayPlaylist
    \/ \E i \in 1..Len(calls) : PlayPreloadNext(i)
    \/ \E i \in 1..Len(calls) : PlayStart(i)
    \/ \E i \in 1..Len(calls) : PlayPairStart(i)
    \/ \E i \in 1..Len(calls) : SnpPreloaded(i)
    \/ \E i \in 1..Len(calls) : SnpLoaded(i)
    \/ \E i \in 1..Len(calls) : SnpHiddenPlaylist(i)
    \/ \E k \in 1..Len(timers) : FireDeferred(k)
    \/ \E k \in 1..Len(timers) : FirePairStart(k)
    \/ \E k \in 1..Len(timers) : FireEmit(k)
    \/ \E k \in 1..Len(timers) : FireMfSwitch(k)
    \/ \E k \in 1..Len(pendingLoads) : LoadDone(k)
    \/ Tick

SpecPlaylist == InitPlaylist /\ [][NextPlaylist]_vars

\* ------------------------------------------------------------------------
\* C38: the order of a precomputed playlist
\* ------------------------------------------------------------------------

\* the units started so far are the first entries of the list the page set
inListOrder ==
    \A n \in 1..Len(units) :
        n <= Len(envPlaylist) => units[n].pair = envPlaylist[n]

\* scheduleNextPair has replaced the list by a newly generated one and has
\* scheduled no unit since
regenerated ==
    /\ precomputedPlaylist # envPlaylist
    /\ precomputedIndex = 0

\* C38: with a precomputed playlist the units are started in the order of
\* the list, each entry once, and when the end of the list is reached a new
\* list is generated whose first entry is the next unit.
C38_PlaylistOrderThenNewList ==
    precomputedPlaylist # <<>> =>
        /\ inListOrder
        /\ regenerated => state.nextPair = precomputedPlaylist[1]


\* ------------------------------------------------------------------------
\* C39: the key and tempo of the snapshot when a unit becomes current
\* ------------------------------------------------------------------------

\* the step made a unit current
becameCurrent == state'.currentPair # Null /\ state'.currentPair # state.currentPair

\* C39: a snapshot in which a unit has just become current has the key and
\* the tempo of that unit.
C39_SnapshotHasKeyOfUnit ==
    [][becameCurrent =>
         /\ state'.key = pairs'[state'.currentPair].key
         /\ state'.tempo = pairs'[state'.currentPair].tempo]_vars


\* ------------------------------------------------------------------------
\* A new library: the nine-song library replaced by nine other songs while
\* the page calls play; every load succeeds.
\* ------------------------------------------------------------------------

\* nine songs, none of them in LibSmall
LibFresh == <<Song(11, <<"k">>, 1, 84), Song(12, <<"l">>, 2, 84),
              Song(13, <<"m">>, 3, 84), Song(14, <<"n">>, 4, 84),
              Song(15, <<"o">>, 5, 94), Song(16, <<"p">>, 6, 94),
              Song(17, <<"q">>, 7, 94), Song(18, <<"r">>, 8, 94),
              Song(19, <<"s">>, 9, 102)>>

NextFresh ==
    \/ PlayProgression
    \/ UpdateSongs(LibFresh)
    \/ \E i \in 1..Len(calls) : PlayStart(i)
    \/ \E i \in 1..Len(calls) : PlayPairStart(i)
    \/ \E i \in 1..Len(calls) : SnpPreloaded(i)
    \/ \E i \in 1..Len(calls) : SnpLoaded(i)
    \/ \E i \in 1..Len(calls) : SnpHiddenProgression(i)
    \/ \E k \in 1..Len(timers) : FireDeferred(k)
    \/ \E k \in 1..Len(timers) : FirePairStart(k)
    \/ \E k \in 1..Len(timers) : FireEmit(k)
    \/ \E k \in 1..Len(timers) : FireMfSwitch(k)
    \/ \E k \in 1..Len(pendingLoads) : LoadDone(k)
    \/ Tick

SpecFresh == InitLibrary /\ [][NextFresh]_vars

\* ------------------------------------------------------------------------
\* C40: what is played after updateSongs
\* ------------------------------------------------------------------------

\* every track of the pair is a song of this.songs
ofLibrary(pair) ==
    \A track \in {pair.track1, pair.track2, pair.track3, pair.track4} :
        track = NoTrack \/ hasSong(track.song)

\* C40: after updateSongs(newSongs) every track played belongs to newSongs.
\* updateSongs stops every source, so the sources there are after it were
\* all started after it.
C40_OnlyNewSongsPlayed ==
    "updateSongs" \in Range(userOps) =>
        \A source \in currentSources : ofLibrary(pairs[source.pair])

=============================================================================
